---- MODULE Spec2Model ----
(***************************************************************************)
(* Model of src/review/scripts/review.py: the `codex` and `context`        *)
(* commands of the review orchestrator.                                    *)
(*                                                                         *)
(* Text is modelled by TLA+ strings (Len, SubSeq and \o act on them as on  *)
(* Python str).  An Optional value (Python None or a value) is a sequence  *)
(* of length at most one: None is << >> and the value v is << v >>.        *)
(***************************************************************************)
EXTENDS Integers, Sequences, FiniteSets, TLC

VARIABLES
    command,         \* the typer command that was invoked: "codex" | "context"
    cli,             \* the options typer parsed from the command line
    environ,         \* os.environ after load_dotenv()
    pc,              \* position of the command's body
    base,            \* codex local `base`
    uncommitted,     \* codex local `uncommitted`
    commit,          \* codex local `commit`
    issue_contexts,  \* local `issue_contexts`
    ref_index,       \* position of the `for ref_str in issues.split(",")` loop
    cur_ref_str,     \* local `ref_str`, the token at hand ("" before the loop)
    cur_ref,         \* local `ref`, what parseIssueRef returned for it
    plan_content,    \* local `plan_content`
    file_paths,      \* codex local `file_paths`
    file_contents,   \* context local `file_contents` (insertion-ordered dict)
    file_index,      \* position of the `for path in files.split(",")` loop
    cmd,             \* codex local `cmd`, the argument vector
    exit_code,       \* exit status of the process, None while it runs
    trace,           \* every external effect of the run, in order
    fetched          \* history: each reference token the loop has handled,
                     \* with what it parsed to and the world its fetch met

vars == << command, cli, environ, pc, base, uncommitted, commit,
           issue_contexts, ref_index, cur_ref_str, cur_ref, plan_content,
           file_paths,
           file_contents, file_index, cmd, exit_code, trace, fetched >>

---------------------------------------------------------------------------
(* Bounds of the model.                                                    *)

\* the most reference tokens given to --issues
MaxRefs == 2
\* the most paths given to --files
MaxFiles == 2

---------------------------------------------------------------------------
(* Python values.                                                          *)

None == << >>
Some(v) == << v >>
Get(o) == o[1]

\* Python truthiness of an Optional[str]: None and "" are falsy
Truthy(o) == o # None /\ Get(o) # ""

Min(S) == CHOOSE x \in S : \A y \in S : x <= y
Max(S) == CHOOSE x \in S : \A y \in S : x >= y

Char(s, i) == SubSeq(s, i, i)

Digits == {"0", "1", "2", "3", "4", "5", "6", "7", "8", "9"}
Uppers == {"A", "B", "C", "D", "E", "F", "G", "H", "I", "J", "K", "L", "M",
           "N", "O", "P", "Q", "R", "S", "T", "U", "V", "W", "X", "Y", "Z"}
Spaces == {" ", "\t", "\n", "\r"}

\* str.strip()
Strip(s) ==
    LET keep == {i \in 1..Len(s) : Char(s, i) \notin Spaces}
    IN  IF keep = {} THEN "" ELSE SubSeq(s, Min(keep), Max(keep))

\* str.split(sep) for a one-character separator
RECURSIVE Split(_, _)
Split(s, sep) ==
    LET at == {i \in 1..Len(s) : Char(s, i) = sep}
    IN  IF at = {} THEN << s >>
        ELSE << SubSeq(s, 1, Min(at) - 1) >>
                 \o Split(SubSeq(s, Min(at) + 1, Len(s)), sep)

\* sep.join(parts)
RECURSIVE Join(_, _)
Join(parts, sep) ==
    IF parts = << >> THEN ""
    ELSE IF Len(parts) = 1 THEN parts[1]
    ELSE parts[1] \o sep \o Join(Tail(parts), sep)

\* s.startswith(p), from position i
StartsAt(s, i, p) ==
    /\ i + Len(p) - 1 <= Len(s)
    /\ SubSeq(s, i, i + Len(p) - 1) = p

\* end of the longest run of characters of `class` that starts at i
\* (i - 1 when the character at i is not in the class): a greedy X+
RunEnd(s, i, class) ==
    LET stop == {k \in i..Len(s) : Char(s, k) \notin class}
    IN  IF stop = {} THEN Len(s) ELSE Min(stop) - 1

\* end of the longest run of characters other than c that starts at i
RunEndNot(s, i, c) ==
    LET stop == {k \in i..Len(s) : Char(s, k) = c}
    IN  IF stop = {} THEN Len(s) ELSE Min(stop) - 1

---------------------------------------------------------------------------
(* parseIssueRef: seven regular expressions, first match wins.             *)

IssueRef(type, id, repo) == [type |-> type, id |-> id, repo |-> repo]

\* length of the `https?://` prefix of s, 0 when there is none
SchemeLen(s) ==
    IF StartsAt(s, 1, "https://") THEN 8
    ELSE IF StartsAt(s, 1, "http://") THEN 7
    ELSE 0

\* re.match(r"https?://github\.com/([^/]+/[^/]+)/(?:issues|pull)/(\d+)", ref)
MatchGithubUrl(ref) ==
    LET n     == SchemeLen(ref)
        o1    == n + Len("github.com/") + 1
        o2    == RunEndNot(ref, o1, "/")
        r1    == o2 + 2
        r2    == RunEndNot(ref, r1, "/")
        k     == r2 + 1
        d1    == IF StartsAt(ref, k, "/issues/") THEN k + 8
                 ELSE IF StartsAt(ref, k, "/pull/") THEN k + 6
                 ELSE 0
        d2    == RunEnd(ref, d1, Digits)
    IN  IF /\ n > 0
           /\ StartsAt(ref, n + 1, "github.com/")
           /\ o2 >= o1
           /\ StartsAt(ref, o2 + 1, "/")
           /\ r2 >= r1
           /\ d1 > 0
           /\ d2 >= d1
        THEN Some(IssueRef("github", SubSeq(ref, d1, d2),
                           Some(SubSeq(ref, o1, r2))))
        ELSE None

\* re.match(r"^([^/]+/[^#]+)#(\d+)$", ref)
MatchGithubRepoRef(ref) ==
    LET slashes == {i \in 1..Len(ref) : Char(ref, i) = "/"}
        f       == IF slashes = {} THEN 0 ELSE Min(slashes)
        h       == RunEndNot(ref, f + 1, "#") + 1
    IN  IF /\ f >= 2
           /\ h >= f + 2
           /\ h < Len(ref)
           /\ RunEnd(ref, h + 1, Digits) = Len(ref)
        THEN Some(IssueRef("github", SubSeq(ref, h + 1, Len(ref)),
                           Some(SubSeq(ref, 1, h - 1))))
        ELSE None

\* the same with the whole match, group(0), for the id
MatchGithubRefWholeMatch(ref) ==
    IF /\ StartsAt(ref, 1, "#")
       /\ Len(ref) >= 2
       /\ RunEnd(ref, 2, Digits) = Len(ref)
    THEN Some(IssueRef("github", ref, None))
    ELSE None

\* re.match(r"^#(\d+)$", ref)
MatchGithubRef(ref) ==
    IF /\ StartsAt(ref, 1, "#")
       /\ Len(ref) >= 2
       /\ RunEnd(ref, 2, Digits) = Len(ref)
    THEN Some(IssueRef("github", SubSeq(ref, 2, Len(ref)), None))
    ELSE None

\* end of a match of [A-Z]+-[A-Z0-9]+ that starts at i, 0 when there is none
LinearKeyEnd(s, i) ==
    LET a == RunEnd(s, i, Uppers)
        b == RunEnd(s, a + 2, Uppers \cup Digits)
    IN  IF a >= i /\ StartsAt(s, a + 1, "-") /\ b >= a + 2 THEN b ELSE 0

\* re.match(r"https?://linear\.app/[^/]+/issue/([A-Z]+-[A-Z0-9]+)", ref)
MatchLinearUrl(ref) ==
    LET n  == SchemeLen(ref)
        t1 == n + Len("linear.app/") + 1
        t2 == RunEndNot(ref, t1, "/")
        k1 == t2 + Len("/issue/") + 1
        k2 == LinearKeyEnd(ref, k1)
    IN  IF /\ n > 0
           /\ StartsAt(ref, n + 1, "linear.app/")
           /\ t2 >= t1
           /\ StartsAt(ref, t2 + 1, "/issue/")
           /\ k2 > 0
        THEN Some(IssueRef("linear", SubSeq(ref, k1, k2), None))
        ELSE None

\* the same without the `$`
MatchLinearRefNoEnd(ref) ==
    IF Len(ref) > 0 /\ LinearKeyEnd(ref, 1) > 0
    THEN Some(IssueRef("linear", SubSeq(ref, 1, LinearKeyEnd(ref, 1)), None))
    ELSE None

\* re.match(r"^([A-Z]+-[A-Z0-9]+)$", ref)
MatchLinearRef(ref) ==
    IF Len(ref) > 0 /\ LinearKeyEnd(ref, 1) = Len(ref)
    THEN Some(IssueRef("linear", ref, None))
    ELSE None

\* re.match(r"https?://[^/]*sentry\.io/issues/(\d+)", ref)
MatchSentryUrl(ref) ==
    LET n  == SchemeLen(ref)
        h2 == RunEndNot(ref, n + 1, "/")
        d1 == h2 + Len("/issues/") + 1
        d2 == RunEnd(ref, d1, Digits)
    IN  IF /\ n > 0
           /\ h2 - Len("sentry.io") >= n
           /\ StartsAt(ref, h2 - Len("sentry.io") + 1, "sentry.io")
           /\ StartsAt(ref, h2 + 1, "/issues/")
           /\ d2 >= d1
        THEN Some(IssueRef("sentry", SubSeq(ref, d1, d2), None))
        ELSE None

\* re.match(r"^sentry:(\d+)$", ref)
MatchSentryRef(ref) ==
    IF /\ StartsAt(ref, 1, "sentry:")
       /\ Len(ref) >= 8
       /\ RunEnd(ref, 8, Digits) = Len(ref)
    THEN Some(IssueRef("sentry", SubSeq(ref, 8, Len(ref)), None))
    ELSE None

\* the first of the matches that is not None
RECURSIVE FirstMatch(_)
FirstMatch(ms) ==
    IF ms = << >> THEN None
    ELSE IF Head(ms) # None THEN Head(ms)
    ELSE FirstMatch(Tail(ms))

parseIssueRef(ref_str) ==
    LET ref == Strip(ref_str)
    IN  FirstMatch(<< MatchGithubUrl(ref), MatchGithubRepoRef(ref),
                      MatchGithubRef(ref), MatchLinearUrl(ref),
                      MatchLinearRef(ref), MatchSentryUrl(ref),
                      MatchSentryRef(ref) >>)

---------------------------------------------------------------------------
(* Effects.  Every call the program makes outside itself, and every line   *)
(* it echoes, is appended to `trace` as [op, a, b]:                        *)
(*   run        a = the command line,        b = what the subprocess did   *)
(*   http       a = method and URL,          b = what the request did      *)
(*   prompt     a = the prompt text,         b = the value typer returned  *)
(*   fs         a = the call and its path,   b = what it returned          *)
(*   echo       a = "stderr" | "stdout",     b = the text                  *)
(*   uncaught   a = the exception,           b = the function it left      *)
(*   execvp     a = the program,             b = the argument vector       *)

Effect(op, a, b) == [op |-> op, a |-> a, b |-> b]
EchoErr(text) == Effect("echo", "stderr", text)
EchoOut(text) == Effect("echo", "stdout", text)

\* what a fetcher hands back: the IssueContext or None, the effects it had,
\* and whether an exception left it
Fetched(ctx, effects) == [ctx |-> ctx, effects |-> effects, raised |-> FALSE]

IssueContext(ref, title, description, comments, labels) ==
    [ref |-> ref, title |-> title, description |-> description,
     comments |-> comments, labels |-> labels]

\* dict.get(key, "") or "": a missing key and a null both give ""
OrEmpty(o) == IF o = None THEN "" ELSE Get(o)

---------------------------------------------------------------------------
(* What the outside world answers.  A World is the answers one fetch can   *)
(* meet: the two `gh` subprocesses, the Linear request, the two Sentry     *)
(* requests.                                                               *)

\* subprocess.run(["gh", ...]): exit 0 with the JSON document, exit 0 with
\* output that is no JSON document, a non-zero exit, or no `gh` to run
GhResults == {"ok", "badjson", "nonzero", "oserror"}
\* client.post(...): transport error, non-2xx status, a body that is no JSON,
\* a GraphQL errors array, no issue in the data, the issue
LinearResults == {"transport", "http_error", "badjson", "errors", "noissue", "ok"}
\* client.get(.../issues/{id}/)
SentryMetaResults == {"transport", "http_error", "badjson", "ok"}
\* client.get(.../events/latest/): 200 with an exception entry, 200 without,
\* another status, a transport error, 200 with a body that is no JSON
SentryEventResults == {"ok_exception", "ok_plain", "non200", "transport", "badjson"}

\* the text of the exception each failure raises
ErrorText(result) ==
    CASE result = "oserror"    -> "[Errno 2] No such file or directory: 'gh'"
      [] result = "badjson"    -> "Expecting value: line 1 column 1 (char 0)"
      [] result = "transport"  -> "All connection attempts failed"
      [] result = "http_error" -> "Client error '403 Forbidden'"
      [] OTHER                 -> ""

\* the documents the backends hold for an issue id
RECURSIVE Repeat(_, _)
Repeat(s, n) == IF n = 0 THEN "" ELSE s \o Repeat(s, n - 1)

\* issue 42 has a body of 600 characters, the others a short one
GhBody(id) ==
    IF id = "42" THEN Repeat("Steps to reproduce. ", 30) ELSE "Steps to reproduce"

\* the message of the Sentry issue: 500 characters
SentryValue == Repeat("KeyError: 'user' in view;", 20)

\* issue 7 has six comments, the second of 322 characters; the others
\* have three short ones
GhComments(id) ==
    IF id = "7"
    THEN << "I can reproduce this", Repeat("Still failing on main. ", 14),
            "Fixed in main", "Thanks", "Reopening", "Closed again" >>
    ELSE << "I can reproduce this", "Fixed in main", "Thanks" >>

GhPayload(id) ==
    [title |-> Some("GitHub " \o id), body |-> Some(GhBody(id)),
     comments |-> GhComments(id),
     labels |-> << "bug", "" >>]
LinearPayload(id) ==
    [title |-> Some("Linear " \o id), description |-> None,
     comments |-> << [user |-> "ana", body |-> "Looks good"] >>,
     labels |-> << "backend" >>]
SentryPayload(id) ==
    [title |-> Some("Sentry " \o id), value |-> SentryValue,
     level |-> "error", status |-> ""]
SentryExceptionData == "{\"values\": []}"

World(gh_issue, gh_pr, linear, sentry_meta, sentry_event) ==
    [gh_issue |-> gh_issue, gh_pr |-> gh_pr, linear |-> linear,
     sentry_meta |-> sentry_meta, sentry_event |-> sentry_event]

\* the worlds a fetch of a reference of `type` can tell apart: a call that
\* is not made (the `pr` view after the `issue` view answered, the event
\* request after the metadata request failed, any request without its
\* credential) has the one answer "ok"
WorldsFor(type) ==
    CASE type = "github" ->
            {World(a, "ok", "ok", "ok", "ok_plain") : a \in GhResults \ {"nonzero"}}
            \cup {World("nonzero", b, "ok", "ok", "ok_plain") : b \in GhResults}
      [] type = "linear" /\ Truthy(environ.LINEAR_API_KEY) ->
            {World("ok", "ok", a, "ok", "ok_plain") : a \in LinearResults}
      [] type = "sentry" /\ Truthy(environ.SENTRY_AUTH_TOKEN) ->
            {World("ok", "ok", "ok", a, "ok_plain") :
                a \in SentryMetaResults \ {"ok"}}
            \cup {World("ok", "ok", "ok", "ok", b) : b \in SentryEventResults}
      [] OTHER -> {World("ok", "ok", "ok", "ok", "ok_plain")}

---------------------------------------------------------------------------
(* The fetchers.                                                           *)

GhCommand(resource, ref) ==
    "gh " \o resource \o " view " \o ref.id
        \o " --json title,body,comments,labels"
        \o (IF Truthy(ref.repo) THEN " --repo " \o Get(ref.repo) ELSE "")

GithubContext(ref) ==
    LET data == GhPayload(ref.id)
    IN  IssueContext(ref, OrEmpty(data.title), OrEmpty(data.body),
                     data.comments, data.labels)

\* the same written with typer.echo(...) without err=True
GithubWarningOnStdout(ref, result) ==
    EchoOut("Warning: Failed to fetch GitHub issue " \o ref.id \o ": "
            \o ErrorText(result))

GithubWarning(ref, result) ==
    EchoErr("Warning: Failed to fetch GitHub issue " \o ref.id \o ": "
            \o ErrorText(result))

\* one pass of `for resource in ["issue", "pr"]`, then the rest of the loop
RECURSIVE GithubAttempts(_, _, _)
GithubAttempts(ref, resources, results) ==
    IF resources = << >> THEN Fetched(None, << >>)
    ELSE
      LET result == Head(results)
          call   == Effect("run", GhCommand(Head(resources), ref), result)
      IN  CASE result = "ok" ->
                 Fetched(Some(GithubContext(ref)), << call >>)
            [] result \in {"oserror", "badjson"} ->
                 \* the exception leaves the loop for the `except` clause
                 Fetched(None, << call, GithubWarning(ref, result) >>)
            [] OTHER ->
                 LET rest == GithubAttempts(ref, Tail(resources), Tail(results))
                 IN  Fetched(rest.ctx, << call >> \o rest.effects)

\* the same without the try/except around the loop
RECURSIVE GithubAttemptsNoExcept(_, _, _)
GithubAttemptsNoExcept(ref, resources, results) ==
    IF resources = << >> THEN Fetched(None, << >>)
    ELSE
      LET result == Head(results)
          call   == Effect("run", GhCommand(Head(resources), ref), result)
      IN  CASE result = "ok" ->
                 Fetched(Some(GithubContext(ref)), << call >>)
            [] result \in {"oserror", "badjson"} ->
                 [ctx |-> None, effects |-> << call >>, raised |-> TRUE]
            [] OTHER ->
                 LET rest == GithubAttemptsNoExcept(ref, Tail(resources),
                                                    Tail(results))
                 IN  [rest EXCEPT !.effects = << call >> \o @]

fetchGithubIssueNoExcept(ref, w) ==
    GithubAttemptsNoExcept(ref, << "issue", "pr" >>, << w.gh_issue, w.gh_pr >>)

fetchGithubIssue(ref, w) ==
    GithubAttempts(ref, << "issue", "pr" >>, << w.gh_issue, w.gh_pr >>)

LinearContext(ref) ==
    LET issue == LinearPayload(ref.id)
    IN  IssueContext(ref, OrEmpty(issue.title), OrEmpty(issue.description),
                     [k \in 1..Len(issue.comments) |->
                         issue.comments[k].user \o ": " \o issue.comments[k].body],
                     issue.labels)

\* fetchLinearIssue without the `if not api_key` return: the request is made
\* with an empty Authorization header
fetchLinearIssueNoKeyCheck(ref, w) ==
    LET call == Effect("http", "POST https://api.linear.app/graphql " \o ref.id,
                       w.linear)
    IN  CASE w.linear \in {"transport", "http_error", "badjson"} ->
                Fetched(None, << call, EchoErr(
                    "Warning: Failed to fetch Linear issue " \o ref.id
                    \o ": " \o ErrorText(w.linear)) >>)
          [] w.linear = "errors" ->
                Fetched(None, << call, EchoErr(
                    "Warning: Linear API error: [{'message': 'Entity not found'}]") >>)
          [] w.linear = "noissue" ->
                Fetched(None, << call >>)
          [] OTHER ->
                Fetched(Some(LinearContext(ref)), << call >>)

fetchLinearIssue(ref, w) ==
    LET call == Effect("http", "POST https://api.linear.app/graphql " \o ref.id,
                       w.linear)
    IN  IF ~Truthy(environ.LINEAR_API_KEY)
        THEN Fetched(None, << EchoErr(
                 "Warning: LINEAR_API_KEY not set, skipping Linear issue") >>)
        ELSE CASE w.linear \in {"transport", "http_error", "badjson"} ->
                    Fetched(None, << call, EchoErr(
                        "Warning: Failed to fetch Linear issue " \o ref.id
                        \o ": " \o ErrorText(w.linear)) >>)
               [] w.linear = "errors" ->
                    Fetched(None, << call, EchoErr(
                        "Warning: Linear API error: [{'message': 'Entity not found'}]") >>)
               [] w.linear = "noissue" ->
                    Fetched(None, << call >>)
               [] OTHER ->
                    Fetched(Some(LinearContext(ref)), << call >>)

\* a Markdown code fence: three backquotes in the source, written with
\* apostrophes here because a TLA+ string cannot hold a backquote
Fence == "'''"

SentryContext(ref, event_data) ==
    LET issue == SentryPayload(ref.id)
        description ==
            IF event_data # ""
            THEN issue.value \o "\n\nStack trace:\n" \o Fence \o "\n"
                     \o event_data \o "\n" \o Fence
            ELSE issue.value
    IN  IssueContext(ref, OrEmpty(issue.title), description, << >>,
                     << issue.level, issue.status >>)

fetchSentryIssue(ref, w) ==
    LET meta  == Effect("http", "GET https://sentry.io/api/0/issues/"
                                  \o ref.id \o "/", w.sentry_meta)
        event == Effect("http", "GET https://sentry.io/api/0/issues/"
                                  \o ref.id \o "/events/latest/", w.sentry_event)
        warn(result) == EchoErr("Warning: Failed to fetch Sentry issue "
                                \o ref.id \o ": " \o ErrorText(result))
    IN  IF ~Truthy(environ.SENTRY_AUTH_TOKEN)
        THEN Fetched(None, << EchoErr(
                 "Warning: SENTRY_AUTH_TOKEN not set, skipping Sentry issue") >>)
        ELSE CASE w.sentry_meta # "ok" ->
                    Fetched(None, << meta, warn(w.sentry_meta) >>)
               [] w.sentry_event \in {"transport", "badjson"} ->
                    Fetched(None, << meta, event, warn(w.sentry_event) >>)
               [] w.sentry_event = "ok_exception" ->
                    Fetched(Some(SentryContext(ref, SentryExceptionData)),
                            << meta, event >>)
               [] OTHER ->
                    Fetched(Some(SentryContext(ref, "")), << meta, event >>)

fetchIssue(ref, w) ==
    CASE ref.type = "github" -> fetchGithubIssue(ref, w)
      [] ref.type = "linear" -> fetchLinearIssue(ref, w)
      [] ref.type = "sentry" -> fetchSentryIssue(ref, w)
      [] OTHER               -> Fetched(None, << >>)

---------------------------------------------------------------------------
(* printContext: the preview of the gathered context, on stderr.           *)

PreviewDescriptionLimit == 500
PreviewCommentLimit == 200
PreviewComments == 2
PreviewPlanLines == 10

\* seq[:n]
Take(seq, n) == SubSeq(seq, 1, IF Len(seq) < n THEN Len(seq) ELSE n)

\* the same with `>=` for `>`
TruncateFromLimit(s, n) == IF Len(s) >= n THEN Take(s, n) \o "..." ELSE s

\* s[:n] + "..." if len(s) > n else s
Truncate(s, n) == IF Len(s) > n THEN Take(s, n) \o "..." ELSE s

\* filter(None, labels)
NonEmpty(labels) == SelectSeq(labels, LAMBDA l : l # "")

\* str.upper() of a reference type
Upper(type) ==
    CASE type = "github" -> "GITHUB"
      [] type = "linear" -> "LINEAR"
      [] type = "sentry" -> "SENTRY"
      [] OTHER           -> type

RECURSIVE Flatten(_)
Flatten(seqs) ==
    IF seqs = << >> THEN << >> ELSE Head(seqs) \o Flatten(Tail(seqs))

\* "=" * 60
Rule == "============================================================"

PreviewIssue(ctx) ==
    << EchoErr("\n### " \o Upper(ctx.ref.type) \o ": " \o ctx.ref.id),
       EchoErr("**Title:** " \o ctx.title) >>
    \o (IF ctx.labels # << >>
        THEN << EchoErr("**Labels:** " \o Join(NonEmpty(ctx.labels), ", ")) >>
        ELSE << >>)
    \o (IF ctx.description # ""
        THEN << EchoErr("\n" \o Truncate(ctx.description,
                                         PreviewDescriptionLimit)) >>
        ELSE << >>)
    \o (IF ctx.comments # << >>
        THEN << EchoErr("\n**Comments:** (" \o ToString(Len(ctx.comments))
                        \o " total)") >>
             \o [k \in 1..Len(Take(ctx.comments, PreviewComments)) |->
                    EchoErr("  - " \o Truncate(ctx.comments[k],
                                               PreviewCommentLimit))]
        ELSE << >>)

\* the lines printContext prints once it has something to show
PreviewLines(contexts, plan_path, content, paths) ==
      << EchoErr("\n" \o Rule), EchoErr("GATHERED CONTEXT"), EchoErr(Rule) >>
      \o (IF contexts # << >>
          THEN << EchoErr("\n## Related Issues") >>
               \o Flatten([k \in 1..Len(contexts) |-> PreviewIssue(contexts[k])])
          ELSE << >>)
      \o (IF Truthy(content)
          THEN LET lines == Split(Get(content), "\n")
               IN  << EchoErr("\n## Plan File: " \o Get(plan_path)),
                      EchoErr(Join(Take(lines, PreviewPlanLines), "\n")) >>
                   \o (IF Len(lines) > PreviewPlanLines
                       THEN << EchoErr("...") >> ELSE << >>)
          ELSE << >>)
      \o (IF paths # << >>
          THEN << EchoErr("\n## Referenced Files (" \o ToString(Len(paths))
                          \o ")") >>
               \o [k \in 1..Len(paths) |-> EchoErr("  - " \o paths[k])]
          ELSE << >>)
      \o << EchoErr("\n" \o Rule), EchoErr("STARTING CODEX REVIEW"),
            EchoErr(Rule \o "\n") >>

\* the same without the early return
printContextAlways(contexts, plan_path, content, paths) ==
    PreviewLines(contexts, plan_path, content, paths)

printContext(contexts, plan_path, content, paths) ==
    IF contexts = << >> /\ ~Truthy(content) /\ paths = << >>
    THEN << >>
    ELSE PreviewLines(contexts, plan_path, content, paths)

---------------------------------------------------------------------------
(* The diff source: hasUncommittedChanges and promptForCompareTarget.      *)

\* subprocess.run(["git", "status", "--porcelain"]): a staged, an unstaged
\* or an untracked change, a clean tree, a directory that is no repository
\* (exit 128, nothing on stdout), or no `git` to run
GitStatusResults ==
    {"staged", "unstaged", "untracked", "clean", "notrepo", "oserror"}

GitStdout(result) ==
    CASE result = "staged"    -> "M  review.py\n"
      [] result = "unstaged"  -> " M review.py\n"
      [] result = "untracked" -> "?? notes.md\n"
      [] OTHER                -> ""

\* bool(result.stdout.strip()) with the staged changes only
hasUncommittedChangesStagedOnly(result) ==
    StartsAt(GitStdout(result), 1, "M")

\* bool(result.stdout.strip())
hasUncommittedChanges(result) == Strip(GitStdout(result)) # ""

\* typer.prompt(text, default): what was typed, or the default on Enter
\* typer.prompt without its default: the line as typed
PromptNoDefault(typed, default) == typed

Prompt(typed, default) == IF typed = "" THEN default ELSE typed

\* what the operator may type at "Select option" ("" is a bare Enter)
ChoiceInputs == {"", "1", "2", "3", "4", "5", "main"}
\* what the operator may type when asked for a name; typer asks again on
\* an empty answer, so the answer it returns is not empty
AnswerInputs == {"release"}

PromptMenu ==
    << EchoErr("\nNo uncommitted changes found."),
       EchoErr("What would you like to review?\n"),
       EchoErr("  1. Compare current branch against main"),
       EchoErr("  2. Compare current branch against another branch"),
       EchoErr("  3. Review a specific commit"),
       EchoErr("  4. Cancel\n") >>

Target(b, c, exit, effects) ==
    [base |-> b, commit |-> c, exit |-> exit, effects |-> effects]

\* promptForCompareTarget with both values returned for a branch
promptForCompareTargetBoth(typed, answer) ==
    LET choice == Prompt(typed, "1")
        asked  == PromptMenu \o << Effect("prompt", "Select option", typed) >>
    IN  CASE choice = "1" -> Target(Some("main"), None, None, asked)
          [] choice = "2" ->
               Target(Some(answer), Some("HEAD"), None, asked \o
                   << Effect("prompt", "Enter branch name to compare against",
                             answer) >>)
          [] choice = "3" ->
               Target(None, Some(answer), None, asked \o
                   << Effect("prompt", "Enter commit SHA", answer) >>)
          [] OTHER -> Target(None, None, Some(0), asked)

\* promptForCompareTarget with "4" taken as the default choice
promptForCompareTargetNoCancel(typed, answer) ==
    LET choice == Prompt(typed, "1")
        asked  == PromptMenu \o << Effect("prompt", "Select option", typed) >>
    IN  CASE choice \in {"1", "4"} -> Target(Some("main"), None, None, asked)
          [] choice = "2" ->
               Target(Some(answer), None, None, asked \o
                   << Effect("prompt", "Enter branch name to compare against",
                             answer) >>)
          [] choice = "3" ->
               Target(None, Some(answer), None, asked \o
                   << Effect("prompt", "Enter commit SHA", answer) >>)
          [] OTHER -> Target(None, None, Some(0), asked)

\* the (base, commit) returned, or the exit status of typer.Exit
\* promptForCompareTarget with `case "4"` for the cancellation and the
\* comparison against main for `case _`
promptForCompareTargetOnlyFourCancels(typed, answer) ==
    LET choice == Prompt(typed, "1")
        asked  == PromptMenu \o << Effect("prompt", "Select option", typed) >>
    IN  CASE choice = "2" ->
               Target(Some(answer), None, None, asked \o
                   << Effect("prompt", "Enter branch name to compare against",
                             answer) >>)
          [] choice = "3" ->
               Target(None, Some(answer), None, asked \o
                   << Effect("prompt", "Enter commit SHA", answer) >>)
          [] choice = "4" -> Target(None, None, Some(0), asked)
          [] OTHER -> Target(Some("main"), None, None, asked)

\* promptForCompareTarget with `return (None, None)` for `raise typer.Exit(0)`
promptForCompareTargetReturnsNone(typed, answer) ==
    LET choice == Prompt(typed, "1")
        asked  == PromptMenu \o << Effect("prompt", "Select option", typed) >>
    IN  CASE choice = "1" -> Target(Some("main"), None, None, asked)
          [] choice = "2" ->
               Target(Some(answer), None, None, asked \o
                   << Effect("prompt", "Enter branch name to compare against",
                             answer) >>)
          [] choice = "3" ->
               Target(None, Some(answer), None, asked \o
                   << Effect("prompt", "Enter commit SHA", answer) >>)
          [] OTHER -> Target(None, None, None, asked)

promptForCompareTarget(typed, answer) ==
    LET choice == Prompt(typed, "1")
        asked  == PromptMenu \o << Effect("prompt", "Select option", typed) >>
    IN  CASE choice = "1" -> Target(Some("main"), None, None, asked)
          [] choice = "2" ->
               Target(Some(answer), None, None, asked \o
                   << Effect("prompt", "Enter branch name to compare against",
                             answer) >>)
          [] choice = "3" ->
               Target(None, Some(answer), None, asked \o
                   << Effect("prompt", "Enter commit SHA", answer) >>)
          [] OTHER -> Target(None, None, Some(0), asked)

\* explicit_source = uncommitted or commit
ExplicitSourceNoBase(u, c, b) == u \/ Truthy(c)

\* explicit_source = uncommitted or commit or base
ExplicitSource(u, c, b) == u \/ Truthy(c) \/ Truthy(b)

---------------------------------------------------------------------------
(* The argument vector of `codex review`.                                  *)

ModelOverride(model) == << "-c", "model=\"" \o model \o "\"" >>

\* the same with `if` for each `elif`
BuildCmdNoElif(u, c, b, model, title) ==
    << "codex", "review" >>
    \o (IF u THEN << "--uncommitted" >> ELSE << >>)
    \o (IF Truthy(c) THEN << "--commit", Get(c) >> ELSE << >>)
    \o (IF Truthy(b) THEN << "--base", Get(b) >> ELSE << >>)
    \o (IF ~u /\ ~Truthy(c) /\ ~Truthy(b) THEN << "--base", "main" >> ELSE << >>)
    \o ModelOverride(model)
    \o (IF Truthy(title) THEN << "--title", Get(title) >> ELSE << >>)

\* the same with the title left out when issues were gathered, and the
\* gathered files handed over as arguments
BuildCmdWithContext(u, c, b, model, title) ==
    << "codex", "review" >>
    \o (IF u THEN << "--uncommitted" >>
        ELSE IF Truthy(c) THEN << "--commit", Get(c) >>
        ELSE IF Truthy(b) THEN << "--base", Get(b) >>
        ELSE << "--base", "main" >>)
    \o ModelOverride(model)
    \o (IF Truthy(title) /\ issue_contexts = << >>
        THEN << "--title", Get(title) >> ELSE << >>)
    \o file_paths

\* the same with the branches tried in the order base, commit, uncommitted
BuildCmdBaseFirst(u, c, b, model, title) ==
    << "codex", "review" >>
    \o (IF Truthy(b) THEN << "--base", Get(b) >>
        ELSE IF Truthy(c) THEN << "--commit", Get(c) >>
        ELSE IF u THEN << "--uncommitted" >>
        ELSE << "--base", "main" >>)
    \o ModelOverride(model)
    \o (IF Truthy(title) THEN << "--title", Get(title) >> ELSE << >>)

BuildCmd(u, c, b, model, title) ==
    << "codex", "review" >>
    \o (IF u THEN << "--uncommitted" >>
        ELSE IF Truthy(c) THEN << "--commit", Get(c) >>
        ELSE IF Truthy(b) THEN << "--base", Get(b) >>
        ELSE << "--base", "main" >>)
    \o ModelOverride(model)
    \o (IF Truthy(title) THEN << "--title", Get(title) >> ELSE << >>)

---------------------------------------------------------------------------
(* The command lines and environments the model runs.                      *)

DefaultModel == "gpt-5.1-codex-max"

Cli(b, u, c, i, p, f, t, m, o) ==
    [base |-> b, uncommitted |-> u, commit |-> c, issues |-> i, plan |-> p,
     files |-> f, title |-> t, model |-> m, output |-> o]

Run(name, options, env) == [command |-> name, cli |-> options, environ |-> env]

\* the non-empty sequences over S of length at most n
SeqsUpTo(S, n) == UNION {[1..k -> S] : k \in 1..n}

BaseInputs == {None, Some(""), Some("dev")}
CommitInputs == {None, Some(""), Some("abc123")}
TitleInputs == {None, Some(""), Some("Fix login"), Some("--uncommitted")}
ModelInputs == {DefaultModel, "o3"}
OutputInputs == {"markdown", "json"}
PlanInputs == {None, Some(""), Some("PLAN.md")}

TokenPool == {"acme/widgets#7", " ENG-123", "sentry:987", "bogus"}
IssueInputs ==
    {None, Some("")} \cup {Some(Join(ts, ",")) : ts \in SeqsUpTo(TokenPool, MaxRefs)}

FilePool == {"review.py", " notes.md"}
FileInputs ==
    {None, Some("")} \cup {Some(Join(ps, ",")) : ps \in SeqsUpTo(FilePool, MaxFiles)}

AllKeys == [LINEAR_API_KEY |-> Some("lin_api_key"),
            SENTRY_AUTH_TOKEN |-> Some("sntrys_token")]
NoKeys == [LINEAR_API_KEY |-> None, SENTRY_AUTH_TOKEN |-> None]
Environs == {AllKeys, NoKeys}

\* every diff-source flag with every title and model, no context
InvocationRuns ==
    {Run("codex", Cli(b, u, c, None, None, None, t, m, "markdown"), AllKeys) :
        b \in BaseInputs, u \in BOOLEAN, c \in CommitInputs,
        t \in TitleInputs, m \in ModelInputs}
\* a diff source given or not, with issues, a plan and a file to gather
GatheringRuns ==
    {Run("codex", Cli(b, u, c, Some("#42,bogus"), Some("PLAN.md"),
                      Some("review.py"), Some("Fix login"), DefaultModel,
                      "markdown"), AllKeys) :
        b \in {None, Some("dev")}, u \in BOOLEAN, c \in {None, Some("abc123")}}
\* every list of reference tokens in every environment
IssueRuns ==
    {Run("codex", Cli(None, TRUE, None, i, None, None, None, DefaultModel,
                      "markdown"), e) :
        i \in IssueInputs, e \in Environs}
\* every plan with every list of files
FileRuns ==
    {Run("codex", Cli(Some("dev"), FALSE, None, None, p, f, None, DefaultModel,
                      "markdown"), AllKeys) :
        p \in PlanInputs, f \in FileInputs}
ContextRuns ==
    {Run("context", Cli(None, FALSE, None, i, None, None, None, DefaultModel, o),
         e) : i \in IssueInputs, e \in Environs, o \in OutputInputs}
    \cup
    {Run("context", Cli(None, FALSE, None, None, p, f, None, DefaultModel, o),
         AllKeys) :
        p \in PlanInputs, f \in FileInputs, o \in OutputInputs}

Runs == InvocationRuns \cup GatheringRuns \cup IssueRuns \cup FileRuns
            \cup ContextRuns

---------------------------------------------------------------------------
(* The state machine.                                                      *)

\* where the body goes once the diff source is known: `if issues:`
IssuesPc == IF Truthy(cli.issues) THEN "issues" ELSE "plan"
\* where the body goes after the plan: `if files:`
FilesPc == IF Truthy(cli.files) THEN "files" ELSE "output"

Init ==
    /\ \E r \in Runs :
          /\ command = r.command
          /\ cli = r.cli
          /\ environ = r.environ
    /\ pc = IF command = "codex" THEN "start" ELSE IssuesPc
    /\ base = cli.base
    /\ uncommitted = cli.uncommitted
    /\ commit = cli.commit
    /\ issue_contexts = << >>
    /\ ref_index = 1
    /\ cur_ref_str = ""
    /\ cur_ref = None
    /\ plan_content = None
    /\ file_paths = << >>
    /\ file_contents = << >>
    /\ file_index = 1
    /\ cmd = << >>
    /\ exit_code = None
    /\ trace = << >>
    /\ fetched = << >>

\* an exception nothing catches leaves the command: traceback, status 1
Uncaught(effects, exception, where) ==
    /\ trace' = trace \o effects \o << Effect("uncaught", exception, where) >>
    /\ pc' = "crashed"
    /\ exit_code' = Some(1)

\* the steps of codex taken with the diff source determined after the
\* context is printed
StepAfterResolveLast(step) ==
    CASE step = "start"   -> IssuesPc
      [] step = "output"  -> "resolve"
      [] step = "resolve" -> "build"
      [] step = "build"   -> "replaced"

\* the steps of codex with a call of the review tool that comes back to the
\* body, as subprocess.run does, in place of os.execvp
StepAfterExecReturns(step) ==
    CASE step = "start"   -> "resolve"
      [] step = "resolve" -> IssuesPc
      [] step = "output"  -> "build"
      [] step = "build"   -> "output"

\* the step that follows the tool check, the diff source, the print and
\* os.execvp in the body of codex; the steps in between follow IssuesPc and
\* FilesPc
StepAfter(step) ==
    CASE step = "start"   -> "resolve"
      [] step = "resolve" -> IssuesPc
      [] step = "output"  -> "build"
      [] step = "build"   -> "replaced"

\* subprocess.run(["which", "codex"]) exits 0 or 1
WhichResults == {"found", "missing"}

\* the check of the exit status left out
codexMissingNever(result) == FALSE

\* subprocess.run(["which", "codex"], ...).returncode != 0
codexMissing(result) == result # "found"

CodexCheckInstalled ==
    /\ command = "codex"
    /\ pc = "start"
    /\ \E result \in WhichResults :
          LET call == Effect("run", "which codex", result)
          IN  IF codexMissing(result)
              THEN /\ trace' = trace \o
                        << call, EchoErr("Error: codex CLI not found"),
                           EchoErr("Install from: https://github.com/openai/codex") >>
                   /\ pc' = "exited"
                   /\ exit_code' = Some(1)
              ELSE /\ trace' = trace \o << call >>
                   /\ pc' = StepAfter("start")
                   /\ UNCHANGED exit_code
    /\ UNCHANGED << command, cli, environ, cur_ref_str, cur_ref,
                    base, uncommitted, commit,
                    issue_contexts, ref_index, plan_content, file_paths,
                    file_contents, file_index, cmd, fetched >>

CodexResolveDiffSource ==
    /\ command = "codex"
    /\ pc = "resolve"
    /\ IF ExplicitSource(uncommitted, commit, base)
       THEN /\ pc' = StepAfter("resolve")
            /\ UNCHANGED << base, uncommitted, commit, exit_code, trace >>
       ELSE \E status \in GitStatusResults :
              LET call == Effect("run", "git status --porcelain", status)
              IN  IF status = "oserror"
                  THEN /\ Uncaught(<< call >>, "FileNotFoundError",
                                   "hasUncommittedChanges")
                       /\ UNCHANGED << base, uncommitted, commit >>
                  ELSE IF hasUncommittedChanges(status)
                  THEN /\ uncommitted' = TRUE
                       /\ trace' = trace \o
                            << call, EchoErr("Reviewing uncommitted changes...") >>
                       /\ pc' = StepAfter("resolve")
                       /\ UNCHANGED << base, commit, exit_code >>
                  ELSE \E typed \in ChoiceInputs, answer \in AnswerInputs :
                         LET target == promptForCompareTarget(typed, answer)
                         IN  /\ trace' = trace \o << call >> \o target.effects
                             /\ IF target.exit # None
                                THEN /\ pc' = "exited"
                                     /\ exit_code' = target.exit
                                     /\ UNCHANGED << base, commit >>
                                ELSE /\ pc' = StepAfter("resolve")
                                     /\ base' = target.base
                                     /\ commit' = target.commit
                                     /\ UNCHANGED exit_code
                             /\ UNCHANGED uncommitted
    /\ UNCHANGED << command, cli, environ, cur_ref_str, cur_ref,
                    issue_contexts, ref_index,
                    plan_content, file_paths, file_contents, file_index, cmd,
                    fetched >>

\* what one pass of the loop over the reference tokens did
Gathered(contexts, effects, raised) ==
    [contexts |-> contexts, effects |-> effects, raised |-> raised]

\* issue_contexts.insert(0, ctx) in place of append
AppendContextFirst(contexts, ctx) ==
    IF ctx # None THEN << Get(ctx) >> \o contexts ELSE contexts

\* if ctx := fetchIssue(ref): issue_contexts.append(ctx)
AppendContext(contexts, ctx) ==
    IF ctx # None THEN Append(contexts, Get(ctx)) ELSE contexts

FetchingLine(ref) ==
    EchoErr("Fetching " \o ref.type \o " issue " \o ref.id \o "...")

\* the body of codex's `for ref_str in issues.split(",")`
CodexIssueStep(contexts, ref_str, w) ==
    LET ref == parseIssueRef(Strip(ref_str))
    IN  IF ref # None
        THEN LET got == fetchIssue(Get(ref), w)
             IN  Gathered(AppendContext(contexts, got.ctx),
                          << FetchingLine(Get(ref)) >> \o got.effects,
                          got.raised)
        ELSE Gathered(contexts,
                      << EchoErr("Warning: Could not parse issue reference: "
                                 \o ref_str) >>,
                      FALSE)

\* the body of context's `for ref_str in issues.split(",")`
ContextIssueStep(contexts, ref_str, w) ==
    LET ref == parseIssueRef(Strip(ref_str))
    IN  IF ref # None
        THEN LET got == fetchIssue(Get(ref), w)
             IN  Gathered(AppendContext(contexts, got.ctx),
                          << FetchingLine(Get(ref)) >> \o got.effects,
                          got.raised)
        ELSE Gathered(contexts, << >>, FALSE)

\* the type of the reference a token parses to, "none" when it does not
TypeOf(ref_str) ==
    LET ref == parseIssueRef(Strip(ref_str))
    IN  IF ref = None THEN "none" ELSE Get(ref).type

RefTokens == Split(Get(cli.issues), ",")

\* the body of the loop of the command that runs
IssueStep(contexts, ref_str, w) ==
    IF command = "codex" THEN CodexIssueStep(contexts, ref_str, w)
    ELSE ContextIssueStep(contexts, ref_str, w)

\* one pass of the loop over issues.split(",")
FetchIssueLoop ==
    /\ pc = "issues"
    /\ LET ref_str == RefTokens[ref_index]
       IN  \E w \in WorldsFor(TypeOf(ref_str)) :
             LET did == IssueStep(issue_contexts, ref_str, w)
             IN  /\ cur_ref_str' = ref_str
                 /\ cur_ref' = parseIssueRef(Strip(ref_str))
                 /\ fetched' = Append(fetched, [ref_str |-> ref_str,
                                                ref |-> cur_ref', world |-> w])
                 /\ IF did.raised
                    THEN /\ Uncaught(did.effects, "Exception", "fetchIssue")
                         /\ UNCHANGED << issue_contexts, ref_index >>
                    ELSE /\ trace' = trace \o did.effects
                         /\ issue_contexts' = did.contexts
                         /\ ref_index' = ref_index + 1
                         /\ pc' = IF ref_index = Len(RefTokens)
                                  THEN "plan" ELSE "issues"
                         /\ UNCHANGED exit_code
    /\ UNCHANGED << command, cli, environ, base, uncommitted, commit,
                    plan_content, file_paths, file_contents, file_index, cmd >>

CodexFetchIssue ==
    /\ command = "codex"
    /\ FetchIssueLoop

\* Path(plan).exists() and read_text(): a file, a directory, or nothing
PlanKinds == {"file", "dir", "missing"}
\* what the plan file holds
PlanTexts == {"# Plan\n1. Fix login\n2. Add tests", ""}

CodexPlanWarning(plan) == << EchoErr("Warning: Plan file not found: " \o plan) >>
ContextPlanWarning(plan) == << >>

\* what the command that runs echoes for a plan that does not exist
PlanWarning(plan) ==
    IF command = "codex" THEN CodexPlanWarning(plan) ELSE ContextPlanWarning(plan)

\* the plan step: Path(plan).exists() and read_text() on a file, a
\* directory, or nothing
ReadPlan ==
    /\ pc = "plan"
    /\ IF ~Truthy(cli.plan)
       THEN /\ plan_content' = None
            /\ pc' = FilesPc
            /\ UNCHANGED << trace, exit_code >>
       ELSE \E kind \in PlanKinds, text \in PlanTexts :
              LET exists == Effect("fs", "exists " \o Get(cli.plan),
                                   IF kind = "missing" THEN "False" ELSE "True")
                  read   == Effect("fs", "read_text " \o Get(cli.plan), kind)
              IN  CASE kind = "missing" ->
                         /\ plan_content' = None
                         /\ trace' = trace \o << exists >> \o PlanWarning(Get(cli.plan))
                         /\ pc' = FilesPc
                         /\ UNCHANGED exit_code
                    [] kind = "dir" ->
                         /\ plan_content' = None
                         /\ Uncaught(<< exists, read >>, "IsADirectoryError",
                                     "read_text")
                    [] OTHER ->
                         /\ plan_content' = Some(text)
                         /\ trace' = trace \o << exists, read >>
                         /\ pc' = FilesPc
                         /\ UNCHANGED exit_code
    /\ UNCHANGED << command, cli, environ, cur_ref_str, cur_ref,
                    base, uncommitted, commit,
                    issue_contexts, ref_index, file_paths, file_contents,
                    file_index, cmd, fetched >>

CodexReadPlan ==
    /\ command = "codex"
    /\ ReadPlan

\* str(Path(s)) for the paths of the model: Path("") is "."
PathStr(s) == IF s = "" THEN "." ELSE s

\* what p.exists(), p.is_file() and p.read_text() meet: a readable file, a
\* file whose read fails, a directory, nothing; "." is a directory
FileKinds(p) ==
    IF p = "." THEN {"dir"} ELSE {"file", "unreadable", "dir", "missing"}

FilePaths == Split(Get(cli.files), ",")

IsFile(kind) == kind \in {"file", "unreadable"}

StatEffect(p, kind) ==
    Effect("fs", "exists,is_file " \o p, IF IsFile(kind) THEN "True" ELSE "False")

CodexCollectFile ==
    /\ command = "codex"
    /\ pc = "files"
    /\ LET path == FilePaths[file_index]
           p    == PathStr(Strip(path))
       IN  \E kind \in FileKinds(p) \ {"unreadable"} :
             IF IsFile(kind)
             THEN /\ file_paths' = Append(file_paths, p)
                  /\ trace' = trace \o << StatEffect(p, kind) >>
             ELSE /\ file_paths' = file_paths
                  /\ trace' = trace \o
                        << StatEffect(p, kind),
                           EchoErr("Warning: File not found: " \o path) >>
    /\ file_index' = file_index + 1
    /\ pc' = IF file_index = Len(FilePaths) THEN "output" ELSE "files"
    /\ UNCHANGED << command, cli, environ, cur_ref_str, cur_ref,
                    base, uncommitted, commit,
                    issue_contexts, ref_index, plan_content, file_contents,
                    cmd, exit_code, fetched >>

CodexPrintContext ==
    /\ command = "codex"
    /\ pc = "output"
    /\ trace' = trace \o printContext(issue_contexts, cli.plan, plan_content,
                                      file_paths)
    /\ pc' = StepAfter("output")
    /\ UNCHANGED << command, cli, environ, cur_ref_str, cur_ref,
                    base, uncommitted, commit,
                    issue_contexts, ref_index, plan_content, file_paths,
                    file_contents, file_index, cmd, exit_code, fetched >>

\* os.execvp("codex", cmd): the review tool takes the place of the process
CodexExec ==
    /\ command = "codex"
    /\ pc = "build"
    /\ cmd' = BuildCmd(uncommitted, commit, base, cli.model, cli.title)
    /\ trace' = trace \o << Effect("execvp", "codex", Join(cmd', " ")) >>
    /\ pc' = StepAfter("build")
    /\ UNCHANGED << command, cli, environ, cur_ref_str, cur_ref,
                    base, uncommitted, commit,
                    issue_contexts, ref_index, plan_content, file_paths,
                    file_contents, file_index, exit_code, fetched >>

---------------------------------------------------------------------------
(* The `context` command.                                                  *)

ContextFetchIssue ==
    /\ command = "context"
    /\ FetchIssueLoop

ContextReadPlan ==
    /\ command = "context"
    /\ ReadPlan

\* what read_text gives: notes.md holds 2080 characters, the others a line
FileText(p) ==
    IF p = "notes.md" THEN Repeat("- remember the login flow\n", 80)
    ELSE "print('" \o p \o "')\n"

\* file_contents[key] = value on an insertion-ordered dict
DictSet(dict, key, value) ==
    IF \E k \in 1..Len(dict) : dict[k].path = key
    THEN [k \in 1..Len(dict) |->
             IF dict[k].path = key THEN [path |-> key, content |-> value]
             ELSE dict[k]]
    ELSE Append(dict, [path |-> key, content |-> value])

ContextCollectFile ==
    /\ command = "context"
    /\ pc = "files"
    /\ LET path == FilePaths[file_index]
           p    == PathStr(Strip(path))
       IN  \E kind \in FileKinds(p) :
             /\ trace' = trace \o << StatEffect(p, kind) >> \o
                   (IF IsFile(kind)
                    THEN << Effect("fs", "read_text " \o p, kind) >> ELSE << >>)
             /\ file_contents' =
                   IF kind = "file" THEN DictSet(file_contents, p, FileText(p))
                   ELSE file_contents
    /\ file_index' = file_index + 1
    /\ pc' = IF file_index = Len(FilePaths) THEN "output" ELSE "files"
    /\ UNCHANGED << command, cli, environ, cur_ref_str, cur_ref,
                    base, uncommitted, commit,
                    issue_contexts, ref_index, plan_content, file_paths, cmd,
                    exit_code, fetched >>

FullComments == 5
FullCommentLimit == 300
FullFileLimit == 2000

\* json.dumps of a str, of a list of str and of an Optional[str]; the
\* escapes of json.dumps are left out
JsonStr(s) == "\"" \o s \o "\""
JsonList(items) == "[" \o Join(items, ", ") \o "]"
JsonOpt(o) == IF o = None THEN "null" ELSE JsonStr(Get(o))

\* json.dumps(data, indent=2) of the context command; the line breaks and
\* the indentation are left out
JsonOutput(contexts, plan, content, files) ==
    "{\"issues\": "
    \o JsonList([k \in 1..Len(contexts) |->
          "{\"type\": " \o JsonStr(contexts[k].ref.type)
          \o ", \"id\": " \o JsonStr(contexts[k].ref.id)
          \o ", \"repo\": " \o JsonOpt(contexts[k].ref.repo)
          \o ", \"title\": " \o JsonStr(contexts[k].title)
          \o ", \"description\": " \o JsonStr(contexts[k].description)
          \o ", \"labels\": "
          \o JsonList([l \in 1..Len(contexts[k].labels) |->
                          JsonStr(contexts[k].labels[l])])
          \o ", \"comments\": "
          \o JsonList([c \in 1..Len(contexts[k].comments) |->
                          JsonStr(contexts[k].comments[c])])
          \o "}"])
    \o ", \"plan\": "
    \o (IF Truthy(content)
        THEN "{\"path\": " \o JsonOpt(plan) \o ", \"content\": "
             \o JsonOpt(content) \o "}"
        ELSE "null")
    \o ", \"files\": "
    \o JsonList([k \in 1..Len(files) |->
          "{\"path\": " \o JsonStr(files[k].path) \o ", \"content\": "
          \o JsonStr(files[k].content) \o "}"])
    \o "}"

MarkdownIssue(ctx) ==
    << EchoOut("## " \o Upper(ctx.ref.type) \o ": " \o ctx.ref.id),
       EchoOut("**Title:** " \o ctx.title) >>
    \o (IF ctx.labels # << >>
        THEN << EchoOut("**Labels:** " \o Join(NonEmpty(ctx.labels), ", ")) >>
        ELSE << >>)
    \o << EchoOut("\n" \o ctx.description \o "\n") >>
    \o (IF ctx.comments # << >>
        THEN << EchoOut("**Comments:**") >>
             \o [k \in 1..Len(Take(ctx.comments, FullComments)) |->
                    EchoOut("- " \o Take(ctx.comments[k], FullCommentLimit)
                            \o "...")]
        ELSE << >>)
    \o << EchoOut("") >>

MarkdownOutput(contexts, plan, content, files) ==
    (IF contexts # << >>
     THEN << EchoOut("# Related Issues\n") >>
          \o Flatten([k \in 1..Len(contexts) |-> MarkdownIssue(contexts[k])])
     ELSE << >>)
    \o (IF Truthy(content)
        THEN << EchoOut("# Plan: " \o Get(plan) \o "\n"),
                EchoOut(Get(content)), EchoOut("") >>
        ELSE << >>)
    \o (IF files # << >>
        THEN << EchoOut("# Referenced Files\n") >>
             \o Flatten([k \in 1..Len(files) |->
                   << EchoOut("## " \o files[k].path),
                      EchoOut(Fence \o "\n"
                              \o Take(files[k].content, FullFileLimit)
                              \o "\n" \o Fence),
                      EchoOut("") >>])
        ELSE << >>)

ContextOutput ==
    /\ command = "context"
    /\ pc = "output"
    /\ trace' = trace \o
          (IF cli.output = "json"
           THEN << EchoOut(JsonOutput(issue_contexts, cli.plan, plan_content,
                                      file_contents)) >>
           ELSE MarkdownOutput(issue_contexts, cli.plan, plan_content,
                               file_contents))
    /\ pc' = "returned"
    /\ exit_code' = Some(0)
    /\ UNCHANGED << command, cli, environ, cur_ref_str, cur_ref,
                    base, uncommitted, commit,
                    issue_contexts, ref_index, plan_content, file_paths,
                    file_contents, file_index, cmd, fetched >>

Next ==
    \/ CodexCheckInstalled
    \/ CodexResolveDiffSource
    \/ CodexFetchIssue
    \/ CodexReadPlan
    \/ CodexCollectFile
    \/ CodexPrintContext
    \/ CodexExec
    \/ ContextFetchIssue
    \/ ContextReadPlan
    \/ ContextCollectFile
    \/ ContextOutput

Spec == Init /\ [][Next]_vars

---------------------------------------------------------------------------
(* Reading the state for the claims.                                       *)

\* the places of the effects of the run, in the order they happened
Places == 1..Len(trace)

IsWhich(e) == e.op = "run" /\ e.a = "which codex"
IsGitStatus(e) == e.op = "run" /\ e.a = "git status --porcelain"
IsPrompt(e) == e.op = "prompt"
IsSelect(e) == e.op = "prompt" /\ e.a = "Select option"
IsGh(e) == e.op = "run" /\ StartsAt(e.a, 1, "gh ")
IsHttp(e) == e.op = "http"
IsFs(e) == e.op = "fs"
IsExec(e) == e.op = "execvp"
IsUncaught(e) == e.op = "uncaught"
IsStderr(e) == e.op = "echo" /\ e.a = "stderr"
IsStdout(e) == e.op = "echo" /\ e.a = "stdout"
IsFetchingLine(e) == IsStderr(e) /\ StartsAt(e.b, 1, "Fetching ")
IsContextPrint(e) == IsStderr(e) /\ e.b = "GATHERED CONTEXT"

\* nothing of the gathering, the printing or the invocation has happened
NothingGathered ==
    /\ \A n \in Places :
          /\ ~IsGh(trace[n]) /\ ~IsHttp(trace[n]) /\ ~IsFs(trace[n])
          /\ ~IsExec(trace[n]) /\ ~IsFetchingLine(trace[n])
          /\ ~IsContextPrint(trace[n]) /\ ~IsStdout(trace[n])
    /\ fetched = << >>
    /\ issue_contexts = << >>
    /\ plan_content = None
    /\ file_paths = << >>
    /\ cmd = << >>

\* the diff sources the caller gave on the command line: a flag that is
\* set, an option with a value that is not empty
SuppliedUncommitted == cli.uncommitted
SuppliedCommit == Truthy(cli.commit)
SuppliedBase == Truthy(cli.base)
Supplied == SuppliedUncommitted \/ SuppliedCommit \/ SuppliedBase
Count(b) == IF b THEN 1 ELSE 0
NumSupplied == Count(SuppliedUncommitted) + Count(SuppliedCommit) + Count(SuppliedBase)

\* the variants of the diff source that are populated in the locals
NumPopulated == Count(uncommitted) + Count(Truthy(commit)) + Count(Truthy(base))

\* the resolver has returned and the body goes on
Resolved ==
    /\ command = "codex"
    /\ pc \in {"issues", "plan", "files", "output", "build", "replaced"}

\* an argument vector read as the review tool reads it: the options after
\* `codex review`, each with the value it takes
Option(flag, value) == [flag |-> flag, value |-> value]
ValueFlags == {"--commit", "--base", "-c", "--title"}
DiffFlags == {"--uncommitted", "--commit", "--base"}

RECURSIVE ParseArgs(_, _)
ParseArgs(argv, i) ==
    IF i > Len(argv) THEN << >>
    ELSE IF argv[i] \in ValueFlags
    THEN << Option(argv[i], IF i < Len(argv) THEN Some(argv[i + 1]) ELSE None) >>
             \o ParseArgs(argv, i + 2)
    ELSE << Option(argv[i], None) >> \o ParseArgs(argv, i + 1)

Options(argv) == ParseArgs(argv, 3)
OptionsOf(argv, flags) == SelectSeq(Options(argv), LAMBDA o : o.flag \in flags)

Invoked == command = "codex" /\ pc = "replaced"

---------------------------------------------------------------------------
(* C1: in the codex command, when `which codex` does not find the review   *)
(* tool the run ends at once with the error reported on stderr and exit    *)
(* status 1: the lookup is the first effect of every run, and after a      *)
(* failed lookup there is no status query, no prompt, no parse or fetch,   *)
(* no plan or file read, no context print and no process replacement.      *)
C1_FailFastOnMissingTool ==
    command = "codex" =>
        /\ trace # << >> => IsWhich(trace[1])
        /\ (trace # << >> /\ trace[1].b # "found") =>
              /\ pc = "exited"
              /\ exit_code = Some(1)
              /\ trace = << trace[1],
                            EchoErr("Error: codex CLI not found"),
                            EchoErr("Install from: https://github.com/openai/codex") >>
              /\ \A n \in Places : ~IsGitStatus(trace[n]) /\ ~IsPrompt(trace[n])
              /\ NothingGathered

C1_Witness ==
    /\ command = "codex"
    /\ Truthy(cli.issues) /\ Truthy(cli.plan) /\ Truthy(cli.files)
    /\ (\E n \in Places : IsWhich(trace[n])) /\ trace[1].b = "missing"
    /\ exit_code = Some(1)

(* C2: when the caller supplies --uncommitted, --commit or --base, the     *)
(* diff source is the supplied one at once: the working tree is never      *)
(* queried, the operator is never prompted, the locals keep the supplied   *)
(* values, and the review tool is invoked with one diff-source option,     *)
(* which is a supplied one (commit="abc123" alone gives --commit abc123).  *)
SuppliedOptions ==
    (IF SuppliedUncommitted THEN {Option("--uncommitted", None)} ELSE {})
    \cup (IF SuppliedCommit THEN {Option("--commit", cli.commit)} ELSE {})
    \cup (IF SuppliedBase THEN {Option("--base", cli.base)} ELSE {})

C2_ExplicitSourceWins ==
    (command = "codex" /\ Supplied) =>
        /\ \A n \in Places : ~IsGitStatus(trace[n]) /\ ~IsPrompt(trace[n])
        /\ uncommitted = cli.uncommitted
        /\ commit = cli.commit
        /\ base = cli.base
        /\ Invoked =>
              /\ Len(OptionsOf(cmd, DiffFlags)) = 1
              /\ OptionsOf(cmd, DiffFlags)[1] \in SuppliedOptions

C2_Witness ==
    /\ Invoked
    /\ cli.commit = Some("abc123") /\ ~cli.uncommitted /\ ~Truthy(cli.base)
    /\ OptionsOf(cmd, DiffFlags) = << Option("--commit", Some("abc123")) >>
    /\ ~(\E n \in Places : IsGitStatus(trace[n]))

(* C3: with no diff source supplied and a status query that prints a       *)
(* staged, unstaged or untracked change, the diff source is Uncommitted:   *)
(* the operator is not prompted and the review tool is invoked with        *)
(* --uncommitted as its only diff-source option.                           *)
SawChanges ==
    (\E n \in Places : IsGitStatus(trace[n]) /\ Strip(GitStdout(trace[n].b)) # "")

C3_DirtyTreeIsUncommitted ==
    (command = "codex" /\ SawChanges) =>
        /\ ~Supplied
        /\ ~(\E n \in Places : IsPrompt(trace[n]))
        /\ uncommitted
        /\ pc # "exited"
        /\ Invoked => OptionsOf(cmd, DiffFlags) = << Option("--uncommitted", None) >>

C3_Witness ==
    /\ Invoked
    /\ (\E n \in Places : IsGitStatus(trace[n]) /\ trace[n].b = "untracked")
    /\ cmd = << "codex", "review", "--uncommitted", "-c",
                "model=\"gpt-5.1-codex-max\"", "--title", "Fix login" >>

(* C4: with no diff source supplied, a clean tree and the operator's       *)
(* choice "4", the run ends with exit status 0 and no error, and nothing   *)
(* else has happened: no issue fetched, no plan or file read, no context   *)
(* printed, the review tool not invoked.                                   *)
ChoseFour == (\E n \in Places : IsSelect(trace[n]) /\ trace[n].b = "4")

C4_CancelIsClean ==
    (command = "codex" /\ ChoseFour) =>
        /\ ~Supplied
        /\ pc = "exited"
        /\ exit_code = Some(0)
        /\ ~(\E n \in Places : IsUncaught(trace[n]))
        /\ NothingGathered
        /\ NumPopulated = 0

C4_Witness ==
    /\ command = "codex"
    /\ ChoseFour
    /\ Truthy(cli.issues) /\ Truthy(cli.plan) /\ Truthy(cli.files)
    /\ (\E n \in Places : IsGitStatus(trace[n]) /\ trace[n].b = "clean")
    /\ exit_code = Some(0)

(* C5 as stated: after the resolution, for every combination of flags,     *)
(* tree state and choice, exactly one of Uncommitted, Base and Commit is   *)
(* populated, and none only when the operator cancelled, the run then      *)
(* having ended.                                                           *)
C5_ExactlyOneVariant ==
    command = "codex" =>
        /\ Resolved => NumPopulated = 1
        /\ ((\E n \in Places : IsPrompt(trace[n])) /\ NumPopulated = 0) =>
              (pc = "exited" /\ exit_code = Some(0) /\ cmd = << >>)

(* C5 amended: after the resolution the populated variants are the ones    *)
(* the caller supplied, or exactly one when the caller supplied none; so   *)
(* exactly one is populated whenever at most one was supplied, and never   *)
(* none unless the operator cancelled, the run then having ended.          *)
C5_OneVariantUnlessSeveralSupplied ==
    command = "codex" =>
        /\ Resolved =>
              NumPopulated = (IF NumSupplied = 0 THEN 1 ELSE NumSupplied)
        /\ ((\E n \in Places : IsPrompt(trace[n])) /\ NumPopulated = 0) =>
              (pc = "exited" /\ exit_code = Some(0) /\ cmd = << >>)

C5_Witness ==
    /\ Resolved
    /\ NumSupplied = 0
    /\ (\E n \in Places : IsSelect(trace[n]) /\ trace[n].b = "3")
    /\ commit = Some("release") /\ base = None /\ ~uncommitted


(* C6: every argument vector handed to the review tool is `codex review`   *)
(* followed by options of which exactly one is a diff-source option        *)
(* (--uncommitted, --base <branch> or --commit <sha>), exactly one is the  *)
(* model override -c model="<model>", and one is --title <title> if and    *)
(* only if a title was supplied; there is no other argument.               *)
C6_ArgvShape ==
    /\ (\E n \in Places : IsExec(trace[n])) <=> Invoked
    /\ cmd # << >> <=> Invoked
    /\ Invoked =>
          LET handed == trace[Len(trace)]
          IN  /\ IsExec(handed)
              /\ handed.a = "codex"
              /\ handed.b = Join(cmd, " ")
              /\ SubSeq(cmd, 1, 2) = << "codex", "review" >>
              /\ Len(OptionsOf(cmd, DiffFlags)) = 1
              /\ OptionsOf(cmd, {"-c"})
                    = << Option("-c", Some("model=\"" \o cli.model \o "\"")) >>
              /\ OptionsOf(cmd, {"--title"})
                    = (IF Truthy(cli.title)
                       THEN << Option("--title", cli.title) >> ELSE << >>)
              /\ \A j \in 1..Len(Options(cmd)) :
                    Options(cmd)[j].flag \in DiffFlags \cup {"-c", "--title"}

C6_Witness ==
    /\ Invoked
    /\ (\E n \in Places : IsExec(trace[n]))
    /\ cli.uncommitted /\ Truthy(cli.commit) /\ Truthy(cli.base)
    /\ cmd = << "codex", "review", "--uncommitted", "-c", "model=\"o3\"",
                "--title", "--uncommitted" >>

(* C7: the argument vector is a function of the resolved diff source, the  *)
(* model and the title alone: whatever issues were fetched and whatever    *)
(* plan and files were read, the vector is `codex review`, the option of   *)
(* the diff source, the model override and the title option.               *)
DiffSource ==
    IF uncommitted THEN [variant |-> "Uncommitted"]
    ELSE IF Truthy(commit) THEN [variant |-> "Commit", sha |-> Get(commit)]
    ELSE IF Truthy(base) THEN [variant |-> "Base", branchName |-> Get(base)]
    ELSE [variant |-> "Base", branchName |-> "main"]

ArgvOf(source, model, title) ==
    << "codex", "review" >>
    \o (CASE source.variant = "Uncommitted" -> << "--uncommitted" >>
          [] source.variant = "Commit" -> << "--commit", source.sha >>
          [] source.variant = "Base" -> << "--base", source.branchName >>)
    \o << "-c", "model=\"" \o model \o "\"" >>
    \o (IF title # None /\ Get(title) # "" THEN << "--title", Get(title) >> ELSE << >>)

C7_ArgvIgnoresContext ==
    Invoked => cmd = ArgvOf(DiffSource, cli.model, cli.title)

C7_Witness ==
    /\ Invoked
    /\ Len(issue_contexts) = 1
    /\ Truthy(plan_content)
    /\ file_paths # << >>
    /\ cmd = << "codex", "review", "--commit", "abc123", "-c",
                "model=\"gpt-5.1-codex-max\"", "--title", "Fix login" >>

(* C8: with no diff source supplied, a status query that fails, git not    *)
(* being installed or the directory not being a repository, counts as no   *)
(* pending change: the operator is shown the menu, and the run does not    *)
(* end with an exception out of the status query.                          *)
StatusFailed ==
    (\E n \in Places : IsGitStatus(trace[n]) /\ trace[n].b \in {"notrepo", "oserror"})

C8_StatusFailureGoesInteractive ==
    (command = "codex" /\ StatusFailed) =>
        /\ ~(\E n \in Places : IsUncaught(trace[n]))
        /\ (\E n \in Places : IsSelect(trace[n]))
        /\ pc # "crashed"

(* C9: the issue contexts are the results, in the order of the tokens on   *)
(* the command line, of the tokens that parsed and whose fetch returned a  *)
(* context; a token that did not parse or whose fetch failed leaves        *)
(* nothing in its place, and every context refers to the reference parsed  *)
(* from its own token.                                                     *)
OwnRef(k) == fetched[k].ref

\* what the fetch of a parsed reference gives, None for no reference
ResultOf(ref, w) == IF ref = None THEN None ELSE fetchIssue(Get(ref), w).ctx

OwnResult(k) == ResultOf(OwnRef(k), fetched[k].world)

\* the context of every token from place k on whose own parse and fetch
\* succeed, with the reference parsed from that token
Success(ref, ctx) ==
    IF ctx = None THEN << >> ELSE << [ctx |-> Get(ctx), ref |-> Get(ref)] >>

SuccessOf(ref, w) == Success(ref, ResultOf(ref, w))

RECURSIVE OwnSuccesses(_)
OwnSuccesses(k) ==
    IF k > Len(fetched) THEN << >>
    ELSE SuccessOf(OwnRef(k), fetched[k].world) \o OwnSuccesses(k + 1)

C9_ContextsAreOrderedSuccesses ==
    LET own == OwnSuccesses(1)
    IN  /\ Len(fetched) <= (IF Truthy(cli.issues) THEN Len(RefTokens) ELSE 0)
        /\ \A k \in 1..Len(fetched) : fetched[k].ref_str = RefTokens[k]
        /\ Len(issue_contexts) = Len(own)
        /\ \A j \in 1..Len(own) :
              /\ issue_contexts[j] = own[j].ctx
              /\ issue_contexts[j].ref = own[j].ref

C9_Witness ==
    /\ pc \in {"replaced", "returned"}
    /\ Len(fetched) = 2
    /\ OwnRef(1) # None /\ OwnResult(1) = None
    /\ OwnRef(2) # None /\ OwnResult(2) # None
    /\ issue_contexts = << Get(OwnResult(2)) >>

(* C10: a fetch that fails, whatever the backend and the failure, an       *)
(* exception inside the backend included, neither ends the loop nor        *)
(* drops another reference: no exception leaves a fetch, every token is    *)
(* handled in its turn, and as many contexts are gathered as there are     *)
(* handled tokens whose own fetch succeeds.                                *)
\* the places, among the tokens handled so far, of the tokens that succeed
Succeeding == {k \in 1..Len(fetched) : OwnResult(k) # None}

C10_FetchFailuresAreIsolated ==
    /\ ~(\E n \in Places : IsUncaught(trace[n]) /\ trace[n].b = "fetchIssue")
    /\ pc = "issues" => ref_index = Len(fetched) + 1
    /\ (pc \notin {"start", "resolve", "issues", "exited", "crashed"}
          /\ Truthy(cli.issues)) => Len(fetched) = Len(RefTokens)
    /\ Len(issue_contexts) = Cardinality(Succeeding)

C10_Witness ==
    /\ Len(fetched) = 2
    /\ OwnRef(1) # None /\ Get(OwnRef(1)).type = "github"
    /\ fetched[1].world.gh_issue = "oserror"
    /\ OwnResult(1) = None
    /\ OwnResult(2) # None
    /\ Len(issue_contexts) = 1


(* C11: in both commands, every token that does not parse is answered by   *)
(* a warning on stderr that names the token, and the tokens after it are   *)
(* still handled.                                                          *)
ParseWarning(ref_str) ==
    EchoErr("Warning: Could not parse issue reference: " \o ref_str)

\* the issues loop is over
IssuesDone ==
    /\ pc \notin {"start", "resolve", "issues", "exited", "crashed"}
    /\ Truthy(cli.issues)

C11_UnparsedTokenIsWarned ==
    /\ \A k \in 1..Len(fetched) :
          OwnRef(k) = None =>
              \E n \in Places : trace[n] = ParseWarning(fetched[k].ref_str)
    /\ pc = "issues" => ref_index = Len(fetched) + 1
    /\ IssuesDone => Len(fetched) = Len(RefTokens)


(* C12: whenever the fetch of a parsed reference gives no IssueContext,    *)
(* whatever the backend and the failure, nothing is gathered for the       *)
(* reference and the fetch writes at least one warning on stderr.          *)
IsWarning(e) == IsStderr(e) /\ StartsAt(e.b, 1, "Warning:")

\* the fetch of the k-th handled token, which parsed
OwnFetch(k) == fetchIssue(Get(OwnRef(k)), fetched[k].world)

WarnedIfNone(got) ==
    got.ctx = None =>
        \E n \in 1..Len(got.effects) : IsWarning(got.effects[n])

C12_FailedFetchIsWarned ==
    /\ \A k \in 1..Len(fetched) :
          OwnRef(k) # None => WarnedIfNone(OwnFetch(k))
    /\ (\A k \in 1..Len(fetched) : OwnResult(k) = None) => issue_contexts = << >>


(* C13: when nothing was gathered (no issue context, no plan content, no   *)
(* file) the rendering writes nothing: codex prints no preview, not even   *)
(* its banner, and context writes nothing on stdout, in markdown and in    *)
(* JSON.                                                                   *)
EmptyBundle ==
    /\ issue_contexts = << >>
    /\ ~Truthy(plan_content)
    /\ file_paths = << >>
    /\ file_contents = << >>

Rendered == pc \in {"build", "replaced", "returned"}

IsBanner(e) ==
    /\ IsStderr(e)
    /\ e.b \in {"\n" \o Rule, Rule, Rule \o "\n", "GATHERED CONTEXT",
                "STARTING CODEX REVIEW"}

EmptyJson == "{\"issues\": [], \"plan\": null, \"files\": []}"

PreviewOf(description) ==
    IF Len(description) > 500
    THEN SubSeq(description, 1, 500) \o "..."
    ELSE description

Previewed == command = "codex" /\ pc \in {"build", "replaced"}

\* the lines of the preview, from its banner on
PreviewPart ==
    LET start == CHOOSE n \in Places : trace[n] = EchoErr("GATHERED CONTEXT")
    IN  SubSeq(trace, start, Len(trace))

\* a line of the preview that is neither a header nor a rule: the
\* description of an issue
IsDescriptionLine(e) ==
    /\ IsStderr(e)
    /\ StartsAt(e.b, 1, "\n")
    /\ ~StartsAt(e.b, 1, "\n#")
    /\ ~StartsAt(e.b, 1, "\n**")
    /\ ~StartsAt(e.b, 1, "\n=")

Described == SelectSeq(issue_contexts, LAMBDA ctx : ctx.description # "")

C14_PreviewDescriptionCut ==
    (Previewed /\ issue_contexts # << >>) =>
        SelectSeq(PreviewPart, IsDescriptionLine)
            = [j \in 1..Len(Described) |->
                  EchoErr("\n" \o PreviewOf(Described[j].description))]

C14_Witness ==
    /\ Previewed
    /\ Len(issue_contexts) = 1
    /\ Len(issue_contexts[1].description) = 600
    /\ \E n \in Places :
          /\ trace[n] = EchoErr("\n" \o SubSeq(issue_contexts[1].description, 1, 500)
                                \o "...")
          /\ Len(trace[n].b) = 504


(* C15: every warning is written on stderr; codex writes nothing on        *)
(* stdout, and what context writes on stdout is the rendering, in JSON or  *)
(* in markdown, of the issues whose fetch succeeded, of the plan that was  *)
(* read and of the files that were read, with no warning in it.            *)
RECURSIVE ContextsOf(_)
ContextsOf(successes) ==
    IF successes = << >> THEN << >>
    ELSE << Head(successes).ctx >> \o ContextsOf(Tail(successes))

PrimaryOutput ==
    LET gathered == ContextsOf(OwnSuccesses(1))
    IN  IF cli.output = "json"
        THEN << EchoOut(JsonOutput(gathered, cli.plan, plan_content,
                                   file_contents)) >>
        ELSE MarkdownOutput(gathered, cli.plan, plan_content, file_contents)

C15_WarningsOnStderrOnly ==
    /\ \A n \in Places :
          (trace[n].op = "echo" /\ StartsAt(trace[n].b, 1, "Warning:")) =>
              trace[n].a = "stderr"
    /\ command = "codex" => \A n \in Places : ~IsStdout(trace[n])
    /\ (command = "context" /\ pc # "returned") =>
          \A n \in Places : ~IsStdout(trace[n])
    /\ (command = "context" /\ pc = "returned") =>
          SelectSeq(trace, IsStdout) = PrimaryOutput

C15_Witness ==
    /\ command = "context" /\ pc = "returned" /\ cli.output = "json"
    /\ Len(fetched) = 2
    /\ OwnRef(1) # None /\ OwnResult(1) = None
    /\ Len(issue_contexts) = 1
    /\ \E n \in Places : IsWarning(trace[n])
    /\ Len(SelectSeq(trace, IsStdout)) = 1


(* C16: in both commands, a plan path that does not exist leaves the plan  *)
(* absent, path and content, in every rendering, a warning naming the      *)
(* path is written on stderr and the run goes on; a plan file that exists  *)
(* is read whole.                                                          *)
PlanDone ==
    /\ Truthy(cli.plan)
    /\ pc \in {"files", "output", "build", "replaced", "returned"}

PlanMissing ==
    \E n \in Places :
        trace[n] = Effect("fs", "exists " \o Get(cli.plan), "False")

PlanRead ==
    \E n \in Places :
        trace[n] = Effect("fs", "read_text " \o Get(cli.plan), "file")

IsPlanSection(e) ==
    \/ IsStderr(e) /\ StartsAt(e.b, 1, "\n## Plan File: ")
    \/ IsStdout(e) /\ StartsAt(e.b, 1, "# Plan: ")

PlanAbsentInRendering ==
    /\ \A n \in Places : ~IsPlanSection(trace[n])
    /\ (command = "context" /\ cli.output = "json" /\ pc = "returned") =>
          trace[Len(trace)]
              = EchoOut(JsonOutput(issue_contexts, None, None, file_contents))

C16_MissingPlanIsWarned ==
    PlanDone =>
        /\ PlanMissing =>
              /\ plan_content = None
              /\ PlanAbsentInRendering
              /\ \E n \in Places :
                    trace[n] = EchoErr("Warning: Plan file not found: "
                                       \o Get(cli.plan))
        /\ PlanRead => plan_content \in {Some(text) : text \in PlanTexts}
        /\ PlanMissing \/ PlanRead


(* C17: in both commands, a path given to --files is gathered if and only  *)
(* if it exists and is a regular file when it is looked at; any other      *)
(* path is dropped with a warning on stderr that names it, the paths       *)
(* after it are still looked at, and the gathered paths keep the order of  *)
(* the command line.                                                       *)
IsStat(e) == e.op = "fs" /\ StartsAt(e.a, 1, "exists,is_file ")

\* the answers of the file system, one for every path looked at so far
Stats == SelectSeq(trace, IsStat)

Candidate(k) == PathStr(Strip(FilePaths[k]))

\* the paths gathered: file_paths in codex, the keys of file_contents in
\* context
Included ==
    IF command = "codex" THEN file_paths
    ELSE [k \in 1..Len(file_contents) |-> file_contents[k].path]

\* a sequence without the later occurrences of its elements
RECURSIVE Dedupe(_)
Dedupe(seq) ==
    IF seq = << >> THEN << >>
    ELSE LET front == Dedupe(SubSeq(seq, 1, Len(seq) - 1))
             last  == seq[Len(seq)]
         IN  IF \E k \in 1..Len(front) : front[k] = last
             THEN front ELSE Append(front, last)

\* the candidates that were regular files, in the order of the command line
RECURSIVE RegularFrom(_)
RegularFrom(k) ==
    IF k > Len(Stats) THEN << >>
    ELSE (IF Stats[k].b = "True" THEN << Candidate(k) >> ELSE << >>)
         \o RegularFrom(k + 1)

FilesDone ==
    /\ Truthy(cli.files)
    /\ pc \in {"output", "build", "replaced", "returned"}

C17_FilesFilteredAndWarned ==
    Truthy(cli.files) =>
        /\ Dedupe(Included) = Dedupe(RegularFrom(1))
        /\ command = "codex" => Included = RegularFrom(1)
        /\ \A k \in 1..Len(Stats) :
              Stats[k].b = "False" =>
                  \E n \in Places :
                      trace[n] = EchoErr("Warning: File not found: "
                                         \o FilePaths[k])
        /\ FilesDone => Len(Stats) = Len(FilePaths)


---------------------------------------------------------------------------
(* parseIssueRef on its own: the function is called on one string.         *)

\* strings built from the parts of the seven patterns, right and wrong
GithubUrlInputs ==
    {scheme \o host \o repo \o kind \o id \o rest :
        scheme \in {"https://", "http://", "ftp://"},
        host \in {"github.com/", "github.org/"},
        repo \in {"acme/widgets", "acme"},
        kind \in {"/issues/", "/pull/", "/pulls/"},
        id \in {"7", "x7"},
        rest \in {"", "/files"}}

GithubRefInputs ==
    {repo \o mark \o id :
        repo \in {"", "acme/widgets", "acme", "acme/widgets/extra", "/widgets",
                  "acme/"},
        mark \in {"#", "!"},
        id \in {"42", "4a", ""}}

LinearInputs ==
    {lead \o key \o rest :
        lead \in {"", "https://linear.app/acme/issue/", "http://linear.app/issue/",
                  "https://linear.app/acme/"},
        key \in {"ENG-123", "eng-123", "ENG-", "ENG123", "A-B", "ENG-12a"},
        rest \in {"", "/fix-login"}}

SentryInputs ==
    {lead \o id \o rest :
        lead \in {"sentry:", "Sentry:", "https://sentry.io/issues/",
                  "https://acme.sentry.io/issues/", "https://sentry.com/issues/",
                  "https://sentry.io/acme/issues/"},
        id \in {"987", "98x", ""},
        rest \in {"", "/events"}}

Padded(S) == S \cup {" " \o s \o " \n" : s \in S}

ParseInputs ==
    Padded({"#42", "acme/widgets#42", "https://github.com/acme/widgets/pull/7",
            "ENG-123", "sentry:987", "ABC-123", "", "bogus"})
    \cup GithubUrlInputs \cup GithubRefInputs \cup LinearInputs \cup SentryInputs

ParseInit ==
    /\ command = "parseIssueRef"
    /\ cli = Cli(None, FALSE, None, None, None, None, None, DefaultModel, "markdown")
    /\ environ = NoKeys
    /\ pc = "call"
    /\ base = None
    /\ uncommitted = FALSE
    /\ commit = None
    /\ issue_contexts = << >>
    /\ ref_index = 1
    /\ cur_ref_str \in ParseInputs
    /\ cur_ref = None
    /\ plan_content = None
    /\ file_paths = << >>
    /\ file_contents = << >>
    /\ file_index = 1
    /\ cmd = << >>
    /\ exit_code = None
    /\ trace = << >>
    /\ fetched = << >>

\* ref = parseIssueRef(ref_str)
ParseCall ==
    /\ pc = "call"
    /\ cur_ref' = parseIssueRef(cur_ref_str)
    /\ pc' = "return"
    /\ UNCHANGED << command, cli, environ, base, uncommitted, commit,
                    issue_contexts, ref_index, cur_ref_str, plan_content,
                    file_paths, file_contents, file_index, cmd, exit_code,
                    trace, fetched >>

ParseSpec == ParseInit /\ [][ParseCall]_vars


Parsed == command = "parseIssueRef" /\ pc = "return"

\* s is one or more capitals, a hyphen, one or more capitals or digits
IsLinearKey(s) ==
    \E h \in 2..(Len(s) - 1) :
        /\ Char(s, h) = "-"
        /\ \A i \in 1..(h - 1) : Char(s, i) \in Uppers
        /\ \A i \in (h + 1)..Len(s) : Char(s, i) \in Uppers \cup Digits

(* C18: parse gives "#42" github/42 with no repo, "acme/widgets#42"        *)
(* github/42/acme/widgets, "https://github.com/acme/widgets/pull/7"        *)
(* github/7/acme/widgets, "ENG-123" linear/ENG-123 and "sentry:987"        *)
(* sentry/987, with or without blanks around the token; a bare key of      *)
(* the Linear shape is always a linear reference, never a github one.      *)
C18_ParseExamples ==
    Parsed =>
        LET token == Strip(cur_ref_str)
        IN  /\ token = "#42" => cur_ref = Some(IssueRef("github", "42", None))
            /\ token = "acme/widgets#42" =>
                  cur_ref = Some(IssueRef("github", "42", Some("acme/widgets")))
            /\ token = "https://github.com/acme/widgets/pull/7" =>
                  cur_ref = Some(IssueRef("github", "7", Some("acme/widgets")))
            /\ token = "ENG-123" => cur_ref = Some(IssueRef("linear", "ENG-123", None))
            /\ token = "sentry:987" => cur_ref = Some(IssueRef("sentry", "987", None))
            /\ IsLinearKey(token) => cur_ref = Some(IssueRef("linear", token, None))

C18_Witness ==
    /\ Parsed
    /\ cur_ref_str = " #42 \n"
    /\ cur_ref = Some(IssueRef("github", "42", None))


---------------------------------------------------------------------------
(* The grammar of the seven patterns, written on the structure of the     *)
(* string: a string is cut into the parts a pattern names.                 *)

IsNumber(s) == Len(s) >= 1 /\ \A i \in 1..Len(s) : Char(s, i) \in Digits
HasNo(s, c) == \A i \in 1..Len(s) : Char(s, i) # c
IsName(s) == Len(s) >= 1 /\ HasNo(s, "/")
Schemes == {"https://", "http://"}
After(s, lead) == SubSeq(s, Len(lead) + 1, Len(s))

\* <owner>/<repo>/(issues|pull)/<number>
IsGithubPath(s) ==
    \E a \in 1..Len(s), b \in 1..Len(s) :
        /\ a < b
        /\ IsName(SubSeq(s, 1, a - 1)) /\ Char(s, a) = "/"
        /\ IsName(SubSeq(s, a + 1, b - 1))
        /\ \E kind \in {"/issues/", "/pull/"} :
              /\ StartsAt(s, b, kind)
              /\ IsNumber(SubSeq(s, b + Len(kind), Len(s)))

\* https?://github.com/<owner>/<repo>/(issues|pull)/<number>
IsGithubUrl(s) ==
    \E scheme \in Schemes :
        /\ StartsAt(s, 1, scheme \o "github.com/")
        /\ IsGithubPath(After(s, scheme \o "github.com/"))

\* <owner>/<repo>#<number>
IsGithubRepoRef(s) ==
    \E a \in 1..Len(s), h \in 1..Len(s) :
        /\ a < h
        /\ IsName(SubSeq(s, 1, a - 1)) /\ Char(s, a) = "/"
        /\ IsName(SubSeq(s, a + 1, h - 1)) /\ HasNo(SubSeq(s, a + 1, h - 1), "#")
        /\ Char(s, h) = "#"
        /\ IsNumber(SubSeq(s, h + 1, Len(s)))

\* <text with a slash after its first name>#<number>
IsSlashedRef(s) ==
    \E a \in 1..Len(s), h \in 1..Len(s) :
        /\ a + 1 < h
        /\ IsName(SubSeq(s, 1, a - 1)) /\ Char(s, a) = "/"
        /\ HasNo(SubSeq(s, a + 1, h - 1), "#")
        /\ Char(s, h) = "#"
        /\ IsNumber(SubSeq(s, h + 1, Len(s)))

\* #<number>
IsGithubRef(s) == StartsAt(s, 1, "#") /\ IsNumber(After(s, "#"))

\* https?://linear.app/<team>/issue/<KEY>
IsLinearUrl(s) ==
    \E scheme \in Schemes :
        /\ StartsAt(s, 1, scheme \o "linear.app/")
        /\ LET rest == After(s, scheme \o "linear.app/")
           IN  \E a \in 1..Len(rest) :
                 /\ IsName(SubSeq(rest, 1, a - 1))
                 /\ StartsAt(rest, a, "/issue/")
                 /\ IsLinearKey(SubSeq(rest, a + Len("/issue/"), Len(rest)))

\* https?://<host that ends in sentry.io>/issues/<number>
IsSentryUrl(s) ==
    \E scheme \in Schemes :
        /\ StartsAt(s, 1, scheme)
        /\ LET rest == After(s, scheme)
           IN  \E a \in 1..Len(rest) :
                 /\ HasNo(SubSeq(rest, 1, a - 1), "/")
                 /\ a > Len("sentry.io")
                 /\ StartsAt(rest, a - Len("sentry.io"), "sentry.io")
                 /\ StartsAt(rest, a, "/issues/")
                 /\ IsNumber(SubSeq(rest, a + Len("/issues/"), Len(rest)))

\* sentry:<number>
IsSentryRef(s) == StartsAt(s, 1, "sentry:") /\ IsNumber(After(s, "sentry:"))

\* the grammar, every pattern taken as the whole token
InGrammar(s) ==
    \/ IsGithubUrl(s) \/ IsGithubRepoRef(s) \/ IsGithubRef(s)
    \/ IsLinearUrl(s) \/ IsLinearKey(s)
    \/ IsSentryUrl(s) \/ IsSentryRef(s)

\* the grammar with the URL patterns taken as the beginning of the token
\* and any text with a slash for the repo of the shorthand
InWideGrammar(s) ==
    \/ \E e \in 1..Len(s) : IsGithubUrl(SubSeq(s, 1, e))
    \/ IsSlashedRef(s) \/ IsGithubRef(s)
    \/ \E e \in 1..Len(s) : IsLinearUrl(SubSeq(s, 1, e))
    \/ IsLinearKey(s)
    \/ \E e \in 1..Len(s) : IsSentryUrl(SubSeq(s, 1, e))
    \/ IsSentryRef(s)

---------------------------------------------------------------------------
(* The steps of a codex run, read off the effects it had.                  *)

IsCheckStep(e) ==
    \/ IsWhich(e)
    \/ e = EchoErr("Error: codex CLI not found")
    \/ e = EchoErr("Install from: https://github.com/openai/codex")

IsResolveStep(e) ==
    \/ IsGitStatus(e)
    \/ IsPrompt(e)
    \/ e = EchoErr("Reviewing uncommitted changes...")
    \/ \E n \in 1..Len(PromptMenu) : e = PromptMenu[n]

IsParseWarning(e) ==
    IsStderr(e) /\ StartsAt(e.b, 1, "Warning: Could not parse issue reference: ")

IsFetchStep(e) ==
    \/ IsFetchingLine(e) \/ IsParseWarning(e)
    \/ IsGh(e) \/ IsHttp(e)
    \/ /\ IsWarning(e)
       /\ \E lead \in {"Warning: Failed to fetch ", "Warning: LINEAR_API_KEY",
                       "Warning: Linear API error", "Warning: SENTRY_AUTH_TOKEN"} :
             StartsAt(e.b, 1, lead)

IsPlanStep(e) ==
    \/ IsFs(e) /\ (StartsAt(e.a, 1, "exists ") \/ StartsAt(e.a, 1, "read_text "))
    \/ IsStderr(e) /\ StartsAt(e.b, 1, "Warning: Plan file not found: ")

IsFileStep(e) ==
    \/ IsStat(e)
    \/ IsStderr(e) /\ StartsAt(e.b, 1, "Warning: File not found: ")

\* 1 tool check, 2 diff source, 3 issues, 4 plan, 5 files, 6 print of the
\* context, 7 invocation, 8 an exception that ends the run
StepOf(e) ==
    IF IsCheckStep(e) THEN 1
    ELSE IF IsResolveStep(e) THEN 2
    ELSE IF IsFetchStep(e) THEN 3
    ELSE IF IsPlanStep(e) THEN 4
    ELSE IF IsFileStep(e) THEN 5
    ELSE IF IsExec(e) THEN 7
    ELSE IF IsUncaught(e) THEN 8
    ELSE IF IsStderr(e) THEN 6
    ELSE 0

\* what the loop says first about the k-th token it handled
Announced(ref_str, ref) ==
    IF ref = None THEN ParseWarning(ref_str) ELSE FetchingLine(Get(ref))

IsAnnouncement(e) == IsFetchingLine(e) \/ IsParseWarning(e)

(* C20 as stated: in a codex run the diff source is determined, status     *)
(* query and prompt, only after the references are parsed and fetched and  *)
(* the context is assembled and printed: no effect of the resolution       *)
(* comes before an effect of the gathering or of the print.                *)
C20_ResolveAfterGathering ==
    command = "codex" =>
        \A i \in Places, j \in Places :
            (StepOf(trace[i]) = 2 /\ StepOf(trace[j]) \in 3..6) => j < i

(* C20 amended: the steps of a codex run come in the order tool check,     *)
(* diff-source resolution (status query and operator prompt), issues       *)
(* (each token parsed and then fetched before the next token is looked     *)
(* at), plan, files, print of the context, invocation: every effect        *)
(* belongs to one of these steps, no effect of a later step comes before   *)
(* one of an earlier step, and the tokens are announced in their order.    *)
C20_ResolveBeforeGathering ==
    command = "codex" =>
        /\ \A n \in Places :
              /\ StepOf(trace[n]) # 0
              /\ n > 1 => StepOf(trace[n - 1]) <= StepOf(trace[n])
        /\ SelectSeq(trace, IsAnnouncement) =
              [k \in 1..Len(fetched) |-> Announced(fetched[k].ref_str, OwnRef(k))]

C20_Witness ==
    /\ Invoked
    /\ \E a \in Places, b \in Places, c \in Places, d \in Places :
          /\ a < b /\ b < c /\ c < d
          /\ IsSelect(trace[a])
          /\ IsFetchingLine(trace[b])
          /\ IsGh(trace[c])
          /\ IsContextPrint(trace[d])


---------------------------------------------------------------------------
(* C21: in a codex run the process is replaced at most once and the        *)
(* replacement is the last thing the run does: the execvp is the last      *)
(* effect of the run, every warning and the whole print of the context     *)
(* come before it, no fetch, read or print follows it, and a replaced      *)
(* process takes no further step.                                          *)
C21_ReplacementIsLast ==
    command = "codex" =>
        /\ \A n \in Places : IsExec(trace[n]) => n = Len(trace)
        /\ Invoked <=> (trace # << >> /\ IsExec(trace[Len(trace)]))
        /\ Invoked => exit_code = None

C21_Witness ==
    /\ Invoked
    /\ \E a \in Places, b \in Places, c \in Places :
          /\ a < b /\ b < c /\ c < Len(trace)
          /\ IsParseWarning(trace[a])
          /\ IsStat(trace[b])
          /\ IsContextPrint(trace[c])
    /\ IsExec(trace[Len(trace)])


---------------------------------------------------------------------------
\* the `gh` call for one view of a reference, written out: `--repo` is
\* there exactly when the reference carries a repo
GhView(resource, ref, answer) ==
    Effect("run",
           "gh " \o resource \o " view " \o ref.id
               \o " --json title,body,comments,labels"
               \o (IF ref.repo = None THEN "" ELSE " --repo " \o ref.repo[1]),
           answer)

\* an answer of a view that is no usable result: a non-zero exit or an
\* output that is no JSON
Unusable(answer) == answer \in {"nonzero", "badjson"}

\* the views the k-th handled token is to be asked for: `issue`, and `pr`
\* when the `issue` view gave no usable result
ViewsDue(k) ==
    LET ref == OwnRef(k)
        w   == fetched[k].world
    IN  IF ref = None \/ Get(ref).type # "github" THEN << >>
        ELSE << GhView("issue", Get(ref), w.gh_issue) >>
             \o (IF Unusable(w.gh_issue)
                 THEN << GhView("pr", Get(ref), w.gh_pr) >>
                 ELSE << >>)

\* the k-th handled token is a GitHub reference one of whose due views
\* answered
ViewAnswered(k) ==
    \E n \in 1..Len(ViewsDue(k)) : ViewsDue(k)[n].b = "ok"

\* the `gh` program could be started for every token handled so far
GhStarts == \A k \in 1..Len(fetched) : fetched[k].world.gh_issue # "oserror"

GithubPlaces ==
    {k \in 1..Len(fetched) : OwnRef(k) # None /\ Get(OwnRef(k)).type = "github"}

(* C22: for a GitHub reference the `issue` view is asked first and the     *)
(* `pr` view whenever the `issue` view gave no usable result, a non-zero   *)
(* exit or an output that is no JSON; the context is built from the first  *)
(* view that answers; `--repo` is passed on each call exactly when the     *)
(* reference carries a repo.                                               *)
C22_PrViewAfterUnusableIssueView ==
    GhStarts =>
        /\ SelectSeq(trace, IsGh) =
              Flatten([k \in 1..Len(fetched) |-> ViewsDue(k)])
        /\ \A k \in GithubPlaces : ViewAnswered(k) <=> OwnResult(k) # None


---------------------------------------------------------------------------
\* the handled tokens that are Sentry references whose metadata request,
\* made with the bearer token, answered
SentryMetaAnswered ==
    {k \in 1..Len(fetched) :
        /\ OwnRef(k) # None /\ Get(OwnRef(k)).type = "sentry"
        /\ Truthy(environ.SENTRY_AUTH_TOKEN)
        /\ fetched[k].world.sentry_meta = "ok"}

\* the latest-event request failed: another status than 200, a transport
\* error, a body that is no JSON
EventFailed(k) ==
    fetched[k].world.sentry_event \in {"non200", "transport", "badjson"}

(* C23: for a Sentry reference whose metadata request answered, a failure  *)
(* of the latest-event request, a status other than 200, a transport       *)
(* error or a body that is no JSON, does not fail the fetch: a context is  *)
(* returned, its description being the message without a stack trace.      *)
C23_EventFailureKeepsContext ==
    \A k \in SentryMetaAnswered :
        /\ OwnResult(k) # None
        /\ EventFailed(k) => Get(OwnResult(k)).description = SentryValue


---------------------------------------------------------------------------
\* the environment variable the backend of a reference needs, "" for none
CredentialOf(type) ==
    CASE type = "linear" -> "LINEAR_API_KEY"
      [] type = "sentry" -> "SENTRY_AUTH_TOKEN"
      [] OTHER           -> ""

HasCredential(type) ==
    CASE type = "linear" -> Truthy(environ.LINEAR_API_KEY)
      [] type = "sentry" -> Truthy(environ.SENTRY_AUTH_TOKEN)
      [] OTHER           -> TRUE

\* the k-th handled token is a reference to a backend whose credential is
\* not in the environment
Uncredentialed(k) == OwnRef(k) # None /\ ~HasCredential(Get(OwnRef(k)).type)

CredentialWarning(type) ==
    EchoErr("Warning: " \o CredentialOf(type) \o " not set, skipping "
            \o (IF type = "linear" THEN "Linear" ELSE "Sentry") \o " issue")

IsCredentialWarning(e) ==
    e \in {CredentialWarning("linear"), CredentialWarning("sentry")}

IsLinearCall(e) == IsHttp(e) /\ StartsAt(e.a, 1, "POST https://api.linear.app/")
IsSentryCall(e) == IsHttp(e) /\ StartsAt(e.a, 1, "GET https://sentry.io/")

(* C24: a reference to Linear or Sentry whose credential is absent from    *)
(* the environment is skipped with a warning: the fetch gives nothing, one *)
(* warning naming the variable is echoed for each such reference, in       *)
(* order, no request is sent to that backend, and the loop goes on to the  *)
(* references that follow.                                                 *)
C24_MissingCredentialSkips ==
    /\ \A k \in 1..Len(fetched) : Uncredentialed(k) => OwnResult(k) = None
    /\ SelectSeq(trace, IsCredentialWarning) =
          Flatten([k \in 1..Len(fetched) |->
                      IF Uncredentialed(k)
                      THEN << CredentialWarning(Get(OwnRef(k)).type) >>
                      ELSE << >>])
    /\ \A n \in Places :
          /\ IsLinearCall(trace[n]) => HasCredential("linear")
          /\ IsSentryCall(trace[n]) => HasCredential("sentry")
    /\ pc = "issues" => ref_index = Len(fetched) + 1
    /\ IssuesDone => Len(fetched) = Len(RefTokens)

C24_Witness ==
    /\ pc \in {"replaced", "returned"}
    /\ environ = NoKeys
    /\ Len(fetched) = 2
    /\ Uncredentialed(1) /\ Get(OwnRef(1)).type = "linear"
    /\ trace[2] = CredentialWarning("linear")
    /\ Get(OwnRef(2)).type = "github"
    /\ Len(issue_contexts) = 1
    /\ \A n \in Places : ~IsHttp(trace[n])


---------------------------------------------------------------------------
\* the operator was asked, and typed `line` at "Select option"
Typed(line) == \E n \in Places : IsSelect(trace[n]) /\ trace[n].b = line

\* the name the operator gave when asked `question` right after the
\* selection, None when that question was not asked
NameGiven(question) ==
    IF \E n \in Places :
          /\ n > 1 /\ IsSelect(trace[n - 1])
          /\ IsPrompt(trace[n]) /\ trace[n].a = question
    THEN Some((CHOOSE e \in {trace[n] : n \in Places} :
                  IsPrompt(e) /\ e.a = question).b)
    ELSE None

NumAsked == Cardinality({n \in Places : IsPrompt(trace[n])})

(* C25: on the interactive path a bare Enter at the selection counts as    *)
(* choice 1 and gives Base("main"); choice 2 gives Base of the branch the  *)
(* operator names and choice 3 gives Commit of the sha the operator names; *)
(* in each case the other variant is unset and the run does not end at    *)
(* the prompt.                                                             *)
C25_SelectionGivesVariant ==
    command = "codex" =>
        /\ (Typed("") \/ Typed("1")) =>
              /\ pc # "exited" /\ NumAsked = 1
              /\ base = Some("main") /\ commit = None /\ ~uncommitted
        /\ Typed("2") =>
              /\ pc # "exited" /\ NumAsked = 2
              /\ NameGiven("Enter branch name to compare against") # None
              /\ base = NameGiven("Enter branch name to compare against")
              /\ commit = None /\ ~uncommitted
        /\ Typed("3") =>
              /\ pc # "exited" /\ NumAsked = 2
              /\ NameGiven("Enter commit SHA") # None
              /\ commit = NameGiven("Enter commit SHA")
              /\ base = None /\ ~uncommitted

C25_Witness ==
    /\ Invoked
    /\ Typed("")
    /\ base = Some("main") /\ commit = None
    /\ OptionsOf(cmd, DiffFlags) = << Option("--base", Some("main")) >>


---------------------------------------------------------------------------
\* the context command has written its output
Written == command = "context" /\ pc = "returned"

\* the lines of the output, in order
OutputLines == SelectSeq(trace, IsStdout)

\* the files gathered, each content cut to the cap of the full rendering
CappedFiles ==
    [k \in 1..Len(file_contents) |->
        [path |-> file_contents[k].path,
         content |-> Take(file_contents[k].content, FullFileLimit)]]

\* every comment of every gathered issue, in order
AllComments ==
    Flatten([k \in 1..Len(issue_contexts) |-> issue_contexts[k].comments])

IsCommentLine(e) == IsStdout(e) /\ StartsAt(e.b, 1, "- ")

IsMarkdownDescription(e) ==
    /\ IsStdout(e)
    /\ StartsAt(e.b, 1, "\n")
    /\ \E k \in 1..Len(issue_contexts) :
          e.b = "\n" \o issue_contexts[k].description \o "\n"

(* C26: the full rendering of the context command is complete. The JSON    *)
(* document carries every field of every issue whole and the content of    *)
(* every file cut to 2000 characters; the markdown document shows the      *)
(* whole description and every comment of every issue, whole, with no      *)
(* limit on their number.                                                  *)
C26_FullRenderingIsComplete ==
    Written =>
        IF cli.output = "json"
        THEN OutputLines =
                << EchoOut(JsonOutput(issue_contexts, cli.plan, plan_content,
                                      CappedFiles)) >>
        ELSE /\ SelectSeq(OutputLines, IsCommentLine) =
                   [k \in 1..Len(AllComments) |-> EchoOut("- " \o AllComments[k])]
             /\ SelectSeq(OutputLines, IsMarkdownDescription) =
                   [k \in 1..Len(issue_contexts) |->
                       EchoOut("\n" \o issue_contexts[k].description \o "\n")]


---------------------------------------------------------------------------
\* the run is at the construction of the argument vector, or past it
AtArguments == command = "codex" /\ pc \in {"build", "replaced"}

(* C27: the last branch of the argument construction, `--base main` for    *)
(* no diff source, is never taken: whenever a run reaches the construction *)
(* one of uncommitted, commit and base is set and not empty, whatever the  *)
(* flags, the state of the working tree and the operator's answers; so a   *)
(* `--base main` handed to the review tool is always the value of base.    *)
C27_FallbackIsUnreachable ==
    AtArguments =>
        /\ uncommitted \/ Truthy(commit) \/ Truthy(base)
        /\ (Invoked /\ OptionsOf(cmd, DiffFlags) = << Option("--base", Some("main")) >>)
              => base = Some("main")

C27_Witness ==
    /\ command = "codex" /\ pc = "build"
    /\ cli.base = Some("") /\ cli.commit = Some("") /\ ~cli.uncommitted
    /\ Typed("3")
    /\ commit = Some("release") /\ base = None /\ ~uncommitted


---------------------------------------------------------------------------
\* the diff-source option of the highest supplied source, in the order
\* uncommitted, commit, base
FirstSupplied ==
    IF SuppliedUncommitted THEN Option("--uncommitted", None)
    ELSE IF SuppliedCommit THEN Option("--commit", cli.commit)
    ELSE Option("--base", cli.base)

(* C28: when the caller supplies more than one diff source the review      *)
(* tool is handed the one of highest precedence, uncommitted before commit *)
(* before base, and the others are dropped without a word: no status       *)
(* query, no prompt, no message about the conflict, no exit.               *)
C28_PrecedenceAmongSupplied ==
    (command = "codex" /\ NumSupplied >= 2) =>
        /\ \A n \in Places :
              /\ ~IsGitStatus(trace[n]) /\ ~IsPrompt(trace[n])
              /\ StepOf(trace[n]) # 2
        /\ pc = "exited" => (\E n \in Places : IsWhich(trace[n]) /\ trace[n].b = "missing")
        /\ Invoked => OptionsOf(cmd, DiffFlags) = << FirstSupplied >>

C28_Witness ==
    /\ Invoked
    /\ ~cli.uncommitted /\ cli.commit = Some("abc123") /\ cli.base = Some("dev")
    /\ OptionsOf(cmd, DiffFlags) = << Option("--commit", Some("abc123")) >>


---------------------------------------------------------------------------
\* the operator typed something other than a bare Enter, "1", "2" or "3"
\* at the selection
TypedOther ==
    \E n \in Places : IsSelect(trace[n]) /\ trace[n].b \notin {"", "1", "2", "3"}

(* C29: on the interactive path every selection other than "1", "2" and    *)
(* "3", a bare Enter standing for "1", is a cancellation, "5" or any text  *)
(* as much as "4": the run ends with exit status 0 at the selection, which *)
(* is asked once, nothing is fetched or read, and the review tool is not   *)
(* invoked.                                                                *)
C29_AnyOtherChoiceCancels ==
    (command = "codex" /\ TypedOther) =>
        /\ pc = "exited" /\ exit_code = Some(0)
        /\ NumAsked = 1 /\ IsSelect(trace[Len(trace)])
        /\ NothingGathered
        /\ cmd = << >>
        /\ \A n \in Places : ~IsUncaught(trace[n]) /\ ~IsExec(trace[n])

C29_Witness ==
    /\ command = "codex"
    /\ Typed("main")
    /\ Truthy(cli.issues)
    /\ pc = "exited" /\ exit_code = Some(0)


---------------------------------------------------------------------------
(* The body of a command is one thread of straight-line code: while the    *)
(* run has not ended its next statement is executed, which moves the       *)
(* program counter or the index of one of the two loops.                   *)
Ended == pc \in {"exited", "crashed", "replaced", "returned"}

Positions ==
    {"start", "resolve", "issues", "plan", "files", "output", "build",
     "exited", "crashed", "replaced", "returned"}

\* the next statement is executed
Advance ==
    /\ ~Ended
    /\ \E p \in Positions, i \in 0..1, j \in 0..1 :
          /\ p # pc \/ i + j > 0
          /\ pc' = p
          /\ ref_index' = ref_index + i
          /\ file_index' = file_index + j

position == << pc, ref_index, file_index >>

FairSpec == Spec /\ WF_position(Advance)

\* the review tool was looked up and not found
ToolMissing == \E n \in Places : IsWhich(trace[n]) /\ trace[n].b = "missing"

FatalExit == pc = "exited" /\ exit_code = Some(1) /\ ToolMissing
CleanExit == pc = "exited" /\ exit_code = Some(0) /\ TypedOther
Replaced  == pc = "replaced"

\* exactly one of the three ends
OneOutcome ==
    Count(FatalExit) + Count(CleanExit) + Count(Replaced) = 1

(* C30: every external call returning, every codex run comes to exactly    *)
(* one of three ends: exit status 1 for a missing review tool, exit status *)
(* 0 for a cancellation, or the replacement of the process by the review   *)
(* tool; no run ends by an exception that nothing catches, and none goes   *)
(* on for ever.                                                            *)
C30_EveryRunEndsCleanly ==
    /\ [](command = "codex" => pc # "crashed")
    /\ (command = "codex") ~> OneOutcome

====
